---- MODULE Spec2Model ----
(***************************************************************************)
(* Verification model of the 8-bit computer emulator:                      *)
(*   - the microcoded CPU of cpu_sim.py (Computer) and the legacy ALU of   *)
(*     8bitsim.py,                                                         *)
(*   - the EASM assembler (Computer.assembler / assembler_core),           *)
(*   - the module loader of tools/compile_routines.py,                     *)
(*   - the peephole pass of tools/mini32_compiler.py.                      *)
(* A control word is modelled as the set of its asserted control bits:     *)
(* the bits are distinct powers of two, so `|` is union and `&` is         *)
(* membership.                                                             *)
(***************************************************************************)
EXTENDS Integers, Sequences, FiniteSets, TLC

VARIABLES
    cpu,        \* the Computer object (cpu_sim.py): registers, memory, error
    phase,      \* position of the host inside one clock cycle, and the
                \* state in which its last call, if a reset, found the machine
    alu,        \* 8bitsim.py: inputs and outputs of the legacy ALU
    asm,        \* assembler run: source lines and result
    ld,         \* loader run (compile_routines.main)
    pp,         \* peephole run: both programs and both machines
    cc,         \* compiler run: source, emitted lines, image and machine
    lcd,        \* the LCD_display object of the Game and the updates it had
    ps          \* parser run (Mini32Parser): source lines, position, symbols

vars == <<cpu, phase, alu, asm, ld, pp, cc, lcd, ps>>

Idle == "-"

----------------------------------------------------------------------------
(* Program constants of cpu_sim.Computer.__init__ *)

memory_size == 256
overflow_limit == 256
stackpointer_start == 224
bits_stackpointer == 4

(* 2 * n written for 2 ** n *)
Pow2_as_product(n) == 2 * n

RECURSIVE Pow2(_)
Pow2(n) == IF n = 0 THEN 1 ELSE 2 * Pow2(n - 1)

(* Control signals (setup_instructions) *)

(* LDI as it would be with the operation reset left out of its last step *)
microcode_LDI_without_ORE == << {"CO", "MI"}, {"RO", "AI", "CE"} >>

(* self.assembly[0b00000101]: LDI, load immediate into A *)
microcode_LDI == << {"CO", "MI"}, {"RO", "AI", "CE", "ORE"} >>

(* JSR as it would be without the increment of the stack pointer *)
microcode_JSR_without_INS ==
    << {"CO", "MI"}, {"RO", "IBI", "CE"}, {"STO", "MI"}, {"CO", "RI"}, {"IBO", "JMP", "ORE"} >>

(* self.assembly[0b00010000]: JSR, jump to subroutine *)
microcode_JSR ==
    << {"CO", "MI"}, {"RO", "IBI", "CE"}, {"STO", "MI"}, {"CO", "RI", "INS"}, {"IBO", "JMP", "ORE"} >>

(* Microcode table: self.assembly[i] for the keys the table has (0..255) *)
assembly(op) ==
    CASE op = 0   -> << {"ORE"} >>
      [] op = 1   -> << {"CO", "MI"}, {"RO", "MI", "CE"}, {"RO", "AI", "ORE"} >>
      [] op = 2   -> << {"CO", "MI"}, {"RO", "MI", "CE"}, {"RO", "BI"}, {"EO", "AI", "FI", "ORE"} >>
      [] op = 3   -> << {"CO", "MI"}, {"RO", "MI", "CE"}, {"RO", "BI"}, {"EO", "AI", "FI", "SU", "ORE"} >>
      [] op = 4   -> << {"CO", "MI"}, {"RO", "MI", "CE"}, {"AO", "RI", "ORE"} >>
      [] op = 5   -> microcode_LDI
      [] op = 6   -> << {"CO", "MI"}, {"RO", "JMP", "CE", "ORE"} >>
      [] op = 7   -> << {"CO", "MI"}, {"RO", "JC", "CE", "ORE"} >>
      [] op = 8   -> << {"CO", "MI"}, {"RO", "JZ", "CE", "ORE"} >>
      [] op = 9   -> << {"KEO", "AI", "ORE"} >>
      [] op = 10  -> << {"CO", "MI"}, {"RO", "BI", "CE"}, {"EO", "AI", "FI", "ORE"} >>
      [] op = 11  -> << {"CO", "MI"}, {"RO", "BI", "CE"}, {"EO", "AI", "FI", "SU", "ORE"} >>
      [] op = 12  -> << {"CO", "MI"}, {"RO", "MI", "CE"}, {"RO", "BI"}, {"FI", "SU", "ORE"} >>
      [] op = 13  -> << {"STO", "MI"}, {"AO", "RI", "INS", "ORE"} >>
      [] op = 14  -> << {"DES"}, {"STO", "MI"}, {"AI", "RO", "ORE"} >>
      [] op = 15  -> << {"STO", "AI", "ORE"} >>
      [] op = 16  -> microcode_JSR
      [] op = 17  -> << {"DES"}, {"STO", "MI"}, {"RO", "JMP", "ORE"} >>
      [] op = 18  -> << {"DES"}, {"STO", "MI"}, {"RO", "MI"}, {"AO", "RI", "ORE"} >>
      [] op = 19  -> << {"DES"}, {"STO", "MI"}, {"RO", "MI"}, {"AI", "RO", "ORE"} >>
      [] op = 20  -> << {"CO", "MI"}, {"RO", "MI", "CE"}, {"RO", "BI", "ORE"} >>
      [] op = 21  -> << {"CO", "MI"}, {"RO", "BI", "CE"}, {"FI", "SU", "ORE"} >>
      [] op = 22  -> << {"RSA", "ORE"} >>
      [] op = 23  -> << {"AO", "BI"}, {"EO", "AI", "FI", "ORE"} >>
      [] op = 24  -> << {"CO", "MI"}, {"RO", "IBI", "CE"}, {"IBO", "DDI", "ORE"} >>
      [] op = 25  -> << {"CO", "MI"}, {"RO", "IBI", "CE"}, {"IBO", "DCI", "ORE"} >>
      [] op = 26  -> << {"CO", "MI"}, {"RO", "IBI", "CE"}, {"IBO", "MI"}, {"RO", "DDI", "ORE"} >>
      [] op = 254 -> << {"AO", "OI", "ORE"} >>
      [] op = 255 -> << {"HLT"} >>
      [] OTHER    -> << >>

(* The keys of self.assembly: range(255) plus the keys assigned explicitly *)
assembly_keys == 0 .. 255

(* Opcodes to which setup_instructions assigns an instruction *)
defined_opcodes == (0 .. 26) \cup {254, 255}

----------------------------------------------------------------------------
(* The Computer object *)

(* reset without its last two lines, the reload of MAR and MDR *)
reset_without_reload(c) ==
    [ memory |-> c.memory,
      bus |-> 0, areg |-> 0, breg |-> 0, sumreg |-> 0, flagreg |-> 0,
      flags |-> 0, inst_reg_a |-> 0, inst_reg_b |-> 0, out_regist |-> 0,
      prog_count |-> 0, input_regi |-> 0, op_timestep |-> 0,
      controlword |-> {}, halting |-> 0, carry |-> 0, zero |-> 0,
      stackpointer |-> 0, timer_indicator |-> 0, clockcycles_ran |-> 0,
      screen_data |-> 0, screen_control |-> 0,
      memaddress |-> 0, memcontent |-> 0,
      error |-> "none" ]

(* Computer.reset: every register to 0; the memory is left as it is *)
reset(c) ==
    [ memory |-> c.memory,
      bus |-> 0, areg |-> 0, breg |-> 0, sumreg |-> 0, flagreg |-> 0,
      flags |-> 0, inst_reg_a |-> 0, inst_reg_b |-> 0, out_regist |-> 0,
      prog_count |-> 0, input_regi |-> 0, op_timestep |-> 0,
      controlword |-> {}, halting |-> 0, carry |-> 0, zero |-> 0,
      stackpointer |-> 0, timer_indicator |-> 0, clockcycles_ran |-> 0,
      screen_data |-> 0, screen_control |-> 0,
      memaddress |-> 0, memcontent |-> c.memory[0],
      error |-> "none" ]

(* `while self.sumreg >= maximum: self.sumreg -= maximum` *)
RECURSIVE wrap_down(_, _)
wrap_down(s, maximum) ==
    IF s >= maximum THEN wrap_down(s - maximum, maximum) ELSE s

(* `while self.sumreg < 0: self.sumreg += maximum` *)
RECURSIVE wrap_up(_, _)
wrap_up(s, maximum) ==
    IF s < 0 THEN wrap_up(s + maximum, maximum) ELSE s

(* The subtract path taken whatever SU is *)
alu_raw_subtracting(a, b, su, maximum) == a + (maximum - b)

(* The unclamped ALU result: a + (maximum - b) on the subtract path *)
alu_raw(a, b, su, maximum) ==
    IF su THEN a + (maximum - b) ELSE a + b

(* Computer.update_ALU as a function of (A, B, SU): sum, carry, zero, flags *)
update_ALU(a, b, su) ==
    LET maximum == overflow_limit
        raw     == alu_raw(a, b, su, maximum)
        sum     == wrap_up(wrap_down(raw, maximum), maximum)
        carry   == IF raw >= maximum \/ raw < 0 THEN 1 ELSE 0
        zero    == IF sum = 0 THEN 1 ELSE 0
    IN  [ sumreg |-> sum, carry |-> carry, zero |-> zero,
          flags |-> 2 * carry + zero ]

(* The selection without the two fetch steps: the table at every timestep *)
control_lookup_without_fetch(c) ==
    IF c.inst_reg_a \notin assembly_keys THEN {"KeyError"}
    ELSE IF c.op_timestep >= Len(assembly(c.inst_reg_a)) THEN {}
    ELSE assembly(c.inst_reg_a)[c.op_timestep + 1]

(* The control word update selects for (op_timestep, inst_reg_a);          *)
(* "KeyError" when inst_reg_a is no key of self.assembly                   *)
control_lookup(c) ==
    IF c.op_timestep = 0 THEN {"MI", "CO"}
    ELSE IF c.op_timestep = 1 THEN {"RO", "IAI", "CE"}
    ELSE IF c.inst_reg_a \notin assembly_keys THEN {"KeyError"}
    ELSE IF c.op_timestep - 2 >= Len(assembly(c.inst_reg_a)) THEN {}
    ELSE assembly(c.inst_reg_a)[c.op_timestep - 2 + 1]

(* update with update_ALU reading SU from the control word of the last call *)
update_with_stale_SU(c) ==
    LET operation == control_lookup(c) IN
    IF c.error # "none" THEN c
    ELSE IF operation = {"KeyError"} THEN [c EXCEPT !.error = "KeyError"]
    ELSE
      LET r  == update_ALU(c.areg, c.breg, "SU" \in c.controlword)
          b1 == IF "IAO" \in operation THEN c.inst_reg_a ELSE c.bus
          b2 == IF "IBO" \in operation THEN c.inst_reg_b ELSE b1
          b3 == IF "RO"  \in operation THEN c.memcontent ELSE b2
          b4 == IF "AO"  \in operation THEN c.areg ELSE b3
          b5 == IF "KEO" \in operation THEN c.input_regi ELSE b4
          b6 == IF "EO"  \in operation THEN r.sumreg ELSE b5
          b7 == IF "CO"  \in operation THEN c.prog_count ELSE b6
          b8 == IF "STO" \in operation
                THEN c.stackpointer + stackpointer_start ELSE b7
      IN [c EXCEPT !.controlword = operation,
                   !.sumreg = r.sumreg, !.carry = r.carry, !.zero = r.zero,
                   !.flags = r.flags, !.bus = b8]

(* Computer.update *)
update(c) ==
    LET operation == control_lookup(c) IN
    IF c.error # "none" THEN c
    ELSE IF operation = {"KeyError"} THEN [c EXCEPT !.error = "KeyError"]
    ELSE
      LET r  == update_ALU(c.areg, c.breg, "SU" \in operation)
          b1 == IF "IAO" \in operation THEN c.inst_reg_a ELSE c.bus
          b2 == IF "IBO" \in operation THEN c.inst_reg_b ELSE b1
          b3 == IF "RO"  \in operation THEN c.memcontent ELSE b2
          b4 == IF "AO"  \in operation THEN c.areg ELSE b3
          b5 == IF "KEO" \in operation THEN c.input_regi ELSE b4
          b6 == IF "EO"  \in operation THEN r.sumreg ELSE b5
          b7 == IF "CO"  \in operation THEN c.prog_count ELSE b6
          b8 == IF "STO" \in operation
                THEN c.stackpointer + stackpointer_start ELSE b7
      IN [c EXCEPT !.controlword = operation,
                   !.sumreg = r.sumreg, !.carry = r.carry, !.zero = r.zero,
                   !.flags = r.flags, !.bus = b8]

(* The tests of clock_high with the three jumps moved in front of CE *)
high_order_jumps_before_CE ==
    << "FI", "MI", "RI", "IAI", "IBI", "AI", "RSA", "BI", "OI", "JMP", "JC", "JZ", "CE", "DDI", "DCI", "INS", "DES" >>

(* The order in which clock_high tests the control bits *)
high_order ==
    << "FI", "MI", "RI", "IAI", "IBI", "AI", "RSA", "BI", "OI", "CE", "DDI", "DCI", "JMP", "JC", "JZ", "INS", "DES" >>

(* The write one asserted control bit makes in clock_high *)
write(c, bit) ==
    CASE bit = "FI"  -> [c EXCEPT !.flagreg = c.flags]
      [] bit = "MI"  ->
            IF c.bus \in 0 .. (memory_size - 1)
            THEN [c EXCEPT !.memaddress = c.bus, !.memcontent = c.memory[c.bus]]
            ELSE [c EXCEPT !.memaddress = c.bus, !.error = "IndexError"]
      [] bit = "RI"  ->
            IF c.memaddress \in 0 .. (memory_size - 1)
            THEN [c EXCEPT !.memcontent = c.bus, !.memory[c.memaddress] = c.bus]
            ELSE [c EXCEPT !.memcontent = c.bus, !.error = "IndexError"]
      [] bit = "IAI" -> [c EXCEPT !.inst_reg_a = c.bus]
      [] bit = "IBI" -> [c EXCEPT !.inst_reg_b = c.bus]
      [] bit = "AI"  -> [c EXCEPT !.areg = c.bus]
      [] bit = "RSA" -> [c EXCEPT !.areg = c.areg \div 2]
      [] bit = "BI"  -> [c EXCEPT !.breg = c.bus]
      [] bit = "OI"  -> [c EXCEPT !.out_regist = c.bus]
      [] bit = "CE"  -> [c EXCEPT !.prog_count = c.prog_count + 1]
      [] bit = "DDI" -> [c EXCEPT !.screen_data = c.bus]
      [] bit = "DCI" -> [c EXCEPT !.screen_control = c.bus \div Pow2(5)]
      [] bit = "JMP" -> [c EXCEPT !.prog_count = c.bus]
      [] bit = "JC"  -> IF (c.flagreg \div 2) % 2 = 1
                      THEN [c EXCEPT !.prog_count = c.bus] ELSE c
      [] bit = "JZ"  -> IF c.flagreg % 2 = 1
                      THEN [c EXCEPT !.prog_count = c.bus] ELSE c
      [] bit = "INS" -> [c EXCEPT !.stackpointer =
                          IF c.stackpointer + 1 >= Pow2(bits_stackpointer)
                          THEN 0 ELSE c.stackpointer + 1]
      [] bit = "DES" -> [c EXCEPT !.stackpointer =
                          IF c.stackpointer - 1 < 0
                          THEN Pow2(bits_stackpointer) - 1 ELSE c.stackpointer - 1]
      [] OTHER     -> c

(* The writes of `operation`, applied in the order `order`; a raised error *)
(* ends the call                                                           *)
RECURSIVE apply_writes(_, _, _)
apply_writes(c, operation, order) ==
    IF order = << >> \/ c.error # "none" THEN c
    ELSE apply_writes(IF Head(order) \in operation THEN write(c, Head(order)) ELSE c,
                      operation, Tail(order))

(* clock_high with the early return on halting left out *)
clock_high_ignoring_halt(c) ==
    IF c.error # "none" THEN c
    ELSE
      LET c1 == [c EXCEPT !.timer_indicator = 1,
                          !.clockcycles_ran = c.clockcycles_ran + 1,
                          !.halting = IF "HLT" \in c.controlword THEN 1 ELSE 0]
      IN apply_writes(c1, c.controlword, high_order)

(* Computer.clock_high *)
clock_high(c) ==
    IF c.error # "none" \/ c.halting # 0 THEN c
    ELSE
      LET c1 == [c EXCEPT !.timer_indicator = 1,
                          !.clockcycles_ran = c.clockcycles_ran + 1,
                          !.halting = IF "HLT" \in c.controlword THEN 1 ELSE 0]
      IN apply_writes(c1, c.controlword, high_order)

(* clock_low without the limit of 8 steps: only ORE ends an instruction *)
clock_low_without_limit(c) ==
    IF c.error # "none" \/ c.halting # 0 THEN c
    ELSE
      [c EXCEPT !.timer_indicator = 0,
                !.op_timestep = IF "ORE" \in c.controlword THEN 0 ELSE c.op_timestep + 1,
                !.halting = IF c.prog_count >= overflow_limit THEN 1 ELSE c.halting]

(* Computer.clock_low *)
clock_low(c) ==
    IF c.error # "none" \/ c.halting # 0 THEN c
    ELSE
      LET t == c.op_timestep + 1 IN
      [c EXCEPT !.timer_indicator = 0,
                !.op_timestep = IF t >= 8 \/ "ORE" \in c.controlword THEN 0 ELSE t,
                !.halting = IF c.prog_count >= overflow_limit THEN 1 ELSE c.halting]

(* Computer.step *)
step(c) == update(clock_low(update(clock_high(update(c)))))

----------------------------------------------------------------------------
(* The assembler.  A source line is a record:                              *)
(*   [kind |-> "ins",   toks |-> tokens of line.strip().split(" ")]        *)
(*   [kind |-> "mem",   addr |-> token, value |-> token]   ADDR = NUMBER   *)
(*   [kind |-> "ptr",   name |-> token, rhs |-> token]     NAME = EXPR     *)
(*   [kind |-> "label", name |-> token]                    LABEL:          *)
(* A token is a sequence of atoms: the digits "0".."9", "+", "-", "#",     *)
(* ".", "@", and identifiers (a mnemonic or a name, one atom each).        *)

Digits == {"0", "1", "2", "3", "4", "5", "6", "7", "8", "9"}

digit_value(d) ==
    CASE d = "0" -> 0 [] d = "1" -> 1 [] d = "2" -> 2 [] d = "3" -> 3
      [] d = "4" -> 4 [] d = "5" -> 5 [] d = "6" -> 6 [] d = "7" -> 7
      [] d = "8" -> 8 [] d = "9" -> 9

is_int(tok) == tok # << >> /\ \A i \in 1 .. Len(tok) : tok[i] \in Digits

(* int(tok) for a token of digits *)
RECURSIVE int_of(_)
int_of(tok) ==
    IF tok = << >> THEN 0
    ELSE 10 * int_of(SubSeq(tok, 1, Len(tok) - 1)) + digit_value(tok[Len(tok)])

(* str(n) for n >= 0, as a token of digits *)
digit_atom(v) == CHOOSE d \in Digits : digit_value(d) = v
RECURSIVE str_of(_)
str_of(n) ==
    IF n < 10 THEN << digit_atom(n) >>
    ELSE str_of(n \div 10) \o << digit_atom(n % 10) >>

(* tok.split(sep) *)
RECURSIVE split(_, _)
split(tok, sep) ==
    IF tok = << >> THEN << << >> >>
    ELSE IF Head(tok) = sep THEN << << >> >> \o split(Tail(tok), sep)
    ELSE LET r == split(Tail(tok), sep)
         IN  << << Head(tok) >> \o Head(r) >> \o Tail(r)

(* "".join(tokens) *)
RECURSIVE join(_)
join(tokens) ==
    IF tokens = << >> THEN << >> ELSE Head(tokens) \o join(Tail(tokens))

(* dict.get(key, 0) *)
get0(d, key) == IF key \in DOMAIN d THEN d[key] ELSE 0

(* dict[key] = value *)
put(d, key, value) ==
    [k \in DOMAIN d \cup {key} |-> IF k = key THEN value ELSE d[k]]

(* build_instruction_map() of tools/assembler_core.py *)
build_instruction_map ==
    [ NOP |-> 0, LDA |-> 1, ADD |-> 2, SUB |-> 3, STA |-> 4, LDI |-> 5,
      JMP |-> 6, JPC |-> 7, JPZ |-> 8, KEI |-> 9, ADI |-> 10, SUI |-> 11,
      CMP |-> 12, PHA |-> 13, PLA |-> 14, LDS |-> 15, JSR |-> 16, RET |-> 17,
      SAS |-> 18, LAS |-> 19, LDB |-> 20, CPI |-> 21, RSA |-> 22, LSA |-> 23,
      DIS |-> 24, DIC |-> 25, LDD |-> 26, JNZ |-> 27, STB |-> 28,
      MOVBA |-> 29, MOVAB |-> 30, LSP |-> 31, MVASP |-> 32, MVBSP |-> 33,
      SUM |-> 34, LAP |-> 35, LPA |-> 36, DIA |-> 37, OUT |-> 254, HLT |-> 255 ]

(* self.instruction_map of cpu_sim.Computer.setup_instructions *)
instruction_map ==
    [ NOP |-> 0, LDA |-> 1, ADD |-> 2, SUB |-> 3, STA |-> 4, LDI |-> 5,
      JMP |-> 6, JPC |-> 7, JPZ |-> 8, KEI |-> 9, ADI |-> 10, SUI |-> 11,
      CMP |-> 12, PHA |-> 13, PLA |-> 14, LDS |-> 15, JSR |-> 16, RET |-> 17,
      SAS |-> 18, LAS |-> 19, LDB |-> 20, CPI |-> 21, RSA |-> 22, LSA |-> 23,
      DIS |-> 24, DIC |-> 25, LDD |-> 26, OUT |-> 254, HLT |-> 255 ]

(* One term of a `+`/`-` expression in assembler_core: `.name`, an integer *)
(* literal, or a bare name; unknown names give 0                           *)
term_value_core(t, variables) ==
    IF t # << >> /\ Head(t) = "." THEN get0(variables, Tail(t))
    ELSE IF is_int(t) THEN int_of(t)
    ELSE get0(variables, t)

(* The same term in Computer.assembler: unknown names and malformed        *)
(* literals raise                                                          *)
term_value_cpu(t, variables) ==
    IF t = << >> THEN [err |-> "IndexError", val |-> 0]
    ELSE IF Head(t) = "."
      THEN IF Tail(t) \in DOMAIN variables
           THEN [err |-> "none", val |-> variables[Tail(t)]]
           ELSE [err |-> "KeyError", val |-> 0]
    ELSE IF is_int(t) THEN [err |-> "none", val |-> int_of(t)]
    ELSE [err |-> "ValueError", val |-> 0]

(* terms_neg = t1.split("-"): the first term added, the others subtracted *)
RECURSIVE sum_terms_core(_, _, _)
sum_terms_core(terms, variables, first) ==
    IF terms = << >> THEN 0
    ELSE (IF first THEN 1 ELSE -1) * term_value_core(Head(terms), variables)
         + sum_terms_core(Tail(terms), variables, FALSE)

RECURSIVE eval_pos_core(_, _)
eval_pos_core(terms_pos, variables) ==
    IF terms_pos = << >> THEN 0
    ELSE sum_terms_core(split(Head(terms_pos), "-"), variables, TRUE)
         + eval_pos_core(Tail(terms_pos), variables)

(* Expression evaluation of assembler_core (operands, addresses, aliases) *)
eval_expr_core(tok, variables) == eval_pos_core(split(tok, "+"), variables)

RECURSIVE sum_terms_cpu(_, _, _)
sum_terms_cpu(terms, variables, first) ==
    IF terms = << >> THEN [err |-> "none", val |-> 0]
    ELSE LET h == term_value_cpu(Head(terms), variables) IN
         IF h.err # "none" THEN h
         ELSE LET r == sum_terms_cpu(Tail(terms), variables, FALSE) IN
              IF r.err # "none" THEN r
              ELSE [err |-> "none",
                    val |-> (IF first THEN h.val ELSE 0 - h.val) + r.val]

RECURSIVE eval_pos_cpu(_, _)
eval_pos_cpu(terms_pos, variables) ==
    IF terms_pos = << >> THEN [err |-> "none", val |-> 0]
    ELSE LET h == sum_terms_cpu(split(Head(terms_pos), "-"), variables, TRUE) IN
         IF h.err # "none" THEN h
         ELSE LET r == eval_pos_cpu(Tail(terms_pos), variables) IN
              IF r.err # "none" THEN r
              ELSE [err |-> "none", val |-> h.val + r.val]

(* Expression evaluation of Computer.assembler *)
eval_expr_cpu(tok, variables) == eval_pos_cpu(split(tok, "+"), variables)

(* Expression evaluation of the assembler in use: core = assembler_core *)
eval_expr(tok, variables, core) ==
    IF core THEN [err |-> "none", val |-> eval_expr_core(tok, variables)]
    ELSE eval_expr_cpu(tok, variables)

(* memory[index] = value on a store of `size` words: a negative index      *)
(* counts from the end, any other index outside the store raises           *)
store(st, index, value, size) ==
    IF index >= size \/ index < 0 - size
    THEN [st EXCEPT !.err = "IndexError"]
    ELSE [st EXCEPT !.mem = put(st.mem, IF index < 0 THEN index + size ELSE index, value)]

(* str(val) for any integer, as a token *)
str_int(n) == IF n < 0 THEN << "-" >> \o str_of(0 - n) ELSE str_of(n)

(* State of one assembler run before the first line is read *)
asm_start ==
    [ address |-> 0, progline |-> 0, program |-> << >>,
      addresses |-> << >>, addresses_line |-> << >>, variables |-> << >>,
      mem |-> << >>, err |-> "none" ]

(* First pass, instruction line: more than two tokens are joined into one  *)
(* operand; one word is allocated per remaining token                      *)
first_pass_instruction(st, toks) ==
    LET instruction == IF Len(toks) > 2
                       THEN << toks[1], join(Tail(toks)) >> ELSE toks
    IN [st EXCEPT !.program = Append(st.program,
                        [tokens |-> instruction,
                         correction |-> st.address - st.progline]),
                  !.address = st.address + Len(instruction),
                  !.progline = st.progline + 1]

(* First pass, `ADDR = NUMBER`: evaluated and written at once *)
first_pass_variable(st, line, size, core) ==
    LET a == eval_expr(line.addr, st.variables, core) IN
    IF a.err # "none" THEN [st EXCEPT !.err = a.err]
    ELSE IF ~ is_int(line.value) THEN [st EXCEPT !.err = "ValueError"]
    ELSE store(st, a.val, int_of(line.value), size)

(* First pass, `NAME = EXPR` *)
first_pass_pointer(st, line, core) ==
    IF core
    THEN [st EXCEPT !.variables =
              put(st.variables, line.name, eval_expr_core(line.rhs, st.variables))]
    ELSE IF line.rhs # << >> /\ Head(line.rhs) = "."
      THEN IF Tail(line.rhs) \in DOMAIN st.variables
           THEN [st EXCEPT !.variables =
                     put(st.variables, line.name, st.variables[Tail(line.rhs)])]
           ELSE [st EXCEPT !.err = "KeyError"]
    ELSE IF is_int(line.rhs)
      THEN [st EXCEPT !.variables = put(st.variables, line.name, int_of(line.rhs))]
    ELSE [st EXCEPT !.err = "ValueError"]

(* The label recorded under the line index, not under the code address *)
first_pass_label_by_line(st, line) ==
    [st EXCEPT !.addresses = put(st.addresses, line.name, st.progline),
               !.addresses_line = put(st.addresses_line, st.progline, st.progline)]

(* First pass, `LABEL:` *)
first_pass_label(st, line) ==
    [st EXCEPT !.addresses = put(st.addresses, line.name, st.address),
               !.addresses_line = put(st.addresses_line, st.address, st.progline)]

RECURSIVE first_pass(_, _, _, _)
first_pass(st, lines, size, core) ==
    IF lines = << >> \/ st.err # "none" THEN st
    ELSE LET line == Head(lines)
             st1  == CASE line.kind = "ins"   -> first_pass_instruction(st, line.toks)
                       [] line.kind = "mem"   -> first_pass_variable(st, line, size, core)
                       [] line.kind = "ptr"   -> first_pass_pointer(st, line, core)
                       [] line.kind = "label" -> first_pass_label(st, line)
         IN first_pass(st1, Tail(lines), size, core)

(* The opcodes the second pass treats as jumps *)
is_jump(mem_ins, core) ==
    (6 <= mem_ins /\ mem_ins <= 8) \/ (16 <= mem_ins /\ mem_ins <= 17)
    \/ (core /\ mem_ins = 27)

(* The mnemonic a token spells, "?" when it is not a single identifier *)
mnemonic_of(tok) == IF Len(tok) = 1 THEN tok[1] ELSE "?"

(* Second pass, one item of program[i]: the word written and the operand   *)
(* text left in program[i][0][1]                                           *)
encode_item(st, items, item, jump, map, core) ==
    IF item = items[1]
    THEN IF mnemonic_of(item) \in DOMAIN map
         THEN [err |-> "none", word |-> map[mnemonic_of(item)], text |-> item,
               jump |-> is_jump(map[mnemonic_of(item)], core), operand |-> FALSE]
         ELSE [err |-> "KeyError", word |-> 0, text |-> item, jump |-> jump,
               operand |-> FALSE]
    ELSE IF jump
    THEN IF item # << >> /\ Head(item) = "#"
         THEN IF is_int(Tail(item))
              THEN [err |-> "none", word |-> int_of(Tail(item)), text |-> Tail(item),
                    jump |-> jump, operand |-> TRUE]
              ELSE [err |-> "ValueError", word |-> 0, text |-> Tail(item),
                    jump |-> jump, operand |-> TRUE]
         ELSE IF item = << >>
              THEN [err |-> "IndexError", word |-> 0, text |-> item,
                    jump |-> jump, operand |-> FALSE]
         ELSE IF item \in DOMAIN st.addresses
              THEN [err |-> "none", word |-> st.addresses[item],
                    text |-> str_of(st.addresses_line[st.addresses[item]]),
                    jump |-> jump, operand |-> TRUE]
              ELSE [err |-> "KeyError", word |-> 0, text |-> item, jump |-> jump,
                    operand |-> FALSE]
    ELSE LET v == eval_expr(item, st.variables, core) IN
         [err |-> v.err, word |-> v.val, text |-> str_int(v.val), jump |-> jump,
          operand |-> v.err = "none"]

(* Second pass over the items of program[i], from item j on *)
RECURSIVE encode_items(_, _, _, _, _, _, _)
encode_items(st, i, j, jump, map, size, core) ==
    LET items == st.program[i].tokens IN
    IF j > Len(items) \/ st.err # "none" THEN st
    ELSE LET e   == encode_item(st, items, items[j], jump, map, core)
             st1 == IF e.operand
                    THEN [st EXCEPT !.program[i].tokens[2] = e.text] ELSE st
             st2 == IF e.err # "none" THEN [st1 EXCEPT !.err = e.err]
                    ELSE [store(st1, st1.address, e.word, size)
                            EXCEPT !.address = st1.address + 1]
         IN encode_items(st2, i, j + 1, e.jump, map, size, core)

RECURSIVE second_pass(_, _, _, _, _)
second_pass(st, i, map, size, core) ==
    IF i > Len(st.program) \/ st.err # "none" THEN st
    ELSE second_pass(encode_items(st, i, 1, FALSE, map, size, core),
                     i + 1, map, size, core)

(* Both passes; in the second, `address` is the running memaddress *)
assemble(lines, map, size, core) ==
    LET st == first_pass(asm_start, lines, size, core)
    IN  second_pass([st EXCEPT !.address = 0], 1, map, size, core)

(* assemble_lines(lines, memory, instruction_map) of tools/assembler_core.py *)
assemble_lines(lines, size) == assemble(lines, build_instruction_map, size, TRUE)

(* Computer.assembler(progload) on the 256-word memory *)
assembler(lines) == assemble(lines, instruction_map, memory_size, FALSE)

(* memory[a] of a store in which the words not written are 0 *)
read(mem, a) == get0(mem, a)

----------------------------------------------------------------------------
(* Source programs loaded into the machine *)

Ins0(m)      == [kind |-> "ins", toks |-> << << m >> >>]
Ins1(m, tok) == [kind |-> "ins", toks |-> << << m >>, tok >>]
Mem(a, v)    == [kind |-> "mem", addr |-> str_of(a), value |-> str_of(v)]
Ptr(n, v)    == [kind |-> "ptr", name |-> << n >>, rhs |-> str_of(v)]
Label(n)     == [kind |-> "label", name |-> << n >>]

(* LDI 7; ADD k; OUT; HLT with k = 7 *)
prog_arith ==
    << Ptr("k", 16), Mem(16, 7),
       Ins1("LDI", str_of(7)), Ins1("ADD", << ".", "k" >>), Ins0("OUT"), Ins0("HLT") >>

(* An immediate wider than the word *)
prog_wide == << Ins1("LDI", str_of(300)), Ins0("OUT"), Ins0("HLT") >>

(* A jump into a data word that is no opcode of the table *)
prog_badop == << Mem(3, 300), Ins1("JMP", << "#", "3" >>) >>

(* A load from an address outside the memory *)
prog_badaddr == << Ins1("LDA", str_of(300)), Ins0("HLT") >>

(* SUI 1 in the last two words of the memory: the operand fetch overflows PC *)
prog_overflow == << Mem(254, 11), Mem(255, 1), Ins1("JMP", << "#", "2", "5", "4" >>) >>

(* JSR add2; HLT; add2: LDI 1; ADI 1; RET *)
prog_subroutine ==
    << Ins1("JSR", << "add2" >>), Ins0("HLT"), Label("add2"),
       Ins1("LDI", str_of(1)), Ins1("ADI", str_of(1)), Ins0("RET") >>

(* KEI; STA 32; SUB 32; JPZ 12; PHA; PLA; OUT; HLT *)
prog_keyboard ==
    << Ins0("KEI"), Ins1("STA", str_of(32)), Ins1("SUB", str_of(32)),
       Ins1("JPZ", << "done" >>), Ins0("NOP"),
       Label("done"), Ins0("PHA"), Ins0("LSA"), Ins0("PLA"), Ins0("OUT"), Ins0("HLT") >>

(* Compares with both outcomes of JPC and a JPZ that is not taken *)
prog_compare ==
    << Mem(32, 3), Ins1("LDI", str_of(3)), Ins1("CPI", str_of(5)),
       Ins1("JPC", << "t" >>), Ins1("JPZ", << "t" >>), Ins1("CMP", str_of(32)),
       Ins1("JPC", << "t" >>), Ins0("HLT"), Label("t"), Ins0("RSA"), Ins0("HLT") >>

(* A store and a load through an address on the stack *)
prog_stack ==
    << Ins1("LDI", str_of(40)), Ins0("PHA"), Ins1("LDI", str_of(9)), Ins0("SAS"),
       Ins1("LDI", str_of(40)), Ins0("PHA"), Ins0("LAS"), Ins0("LDS"), Ins0("HLT") >>

(* A pull from the empty stack and a push onto its last cell *)
prog_underflow == << Ins0("PLA"), Ins0("PHA"), Ins0("HLT") >>

(* The display instructions *)
prog_display ==
    << Mem(32, 77), Ins1("DIS", str_of(65)), Ins1("DIC", str_of(96)),
       Ins1("LDD", str_of(32)), Ins1("LDB", str_of(32)), Ins1("LDA", str_of(32)),
       Ins0("HLT") >>

(* LDI 1; JNZ 0; HLT, with JNZ as its opcode 27 of assembler_core *)
prog_jnz == << Mem(0, 5), Mem(1, 1), Mem(2, 27), Mem(3, 0), Mem(4, 255) >>

Programs ==
    { prog_arith, prog_wide, prog_badop, prog_badaddr, prog_overflow,
      prog_subroutine, prog_keyboard, prog_compare, prog_stack,
      prog_underflow, prog_display, prog_jnz }

(* Values the host writes into the input register (Game.loop) *)
KeyValues == {0, 129}

(* Bound on the clock cycles run between two resets *)
MaxCycles == 40

(* Computer.__init__: zeroed memory, assembler(progload), reset() *)
Computer(lines) ==
    LET a == assembler(lines) IN
    reset([memory |-> [i \in 0 .. (memory_size - 1) |-> read(a.mem, i)]])

InitCPU ==
    /\ cpu \in { Computer(p) : p \in { q \in Programs : assembler(q).err = "none" } }
    /\ phase = [clock |-> "low", updated |-> FALSE, reset_from |-> "none"]
    /\ alu = Idle /\ asm = Idle /\ ld = Idle /\ pp = Idle /\ cc = Idle /\ lcd = Idle
    /\ ps = Idle

(* The host calls computer.update() *)
Update ==
    /\ cpu.error = "none"
    /\ cpu' = update(cpu)
    /\ phase' = [phase EXCEPT !.updated = TRUE, !.reset_from = "none"]
    /\ UNCHANGED <<alu, asm, ld, pp, cc, lcd, ps>>

(* The host calls computer.clock_high(), always right after update() *)
ClockHigh ==
    /\ cpu.error = "none"
    /\ phase.clock = "low" /\ phase.updated
    /\ cpu.clockcycles_ran < MaxCycles
    /\ cpu' = clock_high(cpu)
    /\ phase' = [clock |-> "high", updated |-> FALSE, reset_from |-> "none"]
    /\ UNCHANGED <<alu, asm, ld, pp, cc, lcd, ps>>

(* The host calls computer.clock_low(), after clock_high() and update() *)
ClockLow ==
    /\ cpu.error = "none"
    /\ phase.clock = "high" /\ phase.updated
    /\ cpu' = clock_low(cpu)
    /\ phase' = [clock |-> "low", updated |-> FALSE, reset_from |-> "none"]
    /\ UNCHANGED <<alu, asm, ld, pp, cc, lcd, ps>>

(* The host calls computer.step() *)
Step ==
    /\ cpu.error = "none"
    /\ phase.clock = "low"
    /\ cpu.clockcycles_ran < MaxCycles
    /\ cpu' = step(cpu)
    /\ phase' = [clock |-> "low", updated |-> TRUE, reset_from |-> "none"]
    /\ UNCHANGED <<alu, asm, ld, pp, cc, lcd, ps>>

(* The host calls computer.reset() (key R) *)
Reset ==
    /\ cpu.error = "none"
    /\ cpu' = reset(cpu)
    /\ phase' = [clock |-> "low", updated |-> FALSE,
                 reset_from |-> IF cpu.halting # 0 THEN "Halted" ELSE "Running"]
    /\ UNCHANGED <<alu, asm, ld, pp, cc, lcd, ps>>

(* The host writes the keyboard value into the input register (Game.loop) *)
SetInput ==
    /\ cpu.error = "none"
    /\ phase.clock = "low"
    /\ \E v \in KeyValues :
          /\ v # cpu.input_regi
          /\ cpu' = [cpu EXCEPT !.input_regi = v]
    /\ phase' = [phase EXCEPT !.updated = FALSE, !.reset_from = "none"]
    /\ UNCHANGED <<alu, asm, ld, pp, cc, lcd, ps>>

Next == Update \/ ClockHigh \/ ClockLow \/ Step \/ Reset \/ SetInput

Spec == InitCPU /\ [][Next]_vars

----------------------------------------------------------------------------
(* Claims about the CPU core *)

M == overflow_limit - 1

(* The registers written on a clock edge, and the memory *)
Clocked(c) ==
    << c.memory, c.prog_count, c.areg, c.breg, c.inst_reg_a, c.inst_reg_b,
       c.memaddress, c.memcontent, c.out_regist, c.stackpointer, c.flagreg,
       c.screen_data, c.screen_control, c.op_timestep, c.timer_indicator,
       c.clockcycles_ran >>

(* The values update recomputes from them on every call *)
Combinational(c) == << c.controlword, c.bus, c.sumreg, c.flags, c.carry, c.zero >>

(* C1 (as amended): once the CPU is Halted, every later update, clock_high, *)
(* clock_low or step call leaves it Halted and changes no memory cell and   *)
(* no clocked register (PC, A, B, IR-A, IR-B, MAR, MDR, Output, SP,         *)
(* FlagReg, ScreenData, ScreenCtrl, timestep, tick indicator, cycle        *)
(* count); only reset makes it Running.                                    *)
C1_HaltedStickyClocked ==
    [][ cpu.halting # 0 =>
          \/ cpu' = reset(cpu)
          \/ cpu'.halting # 0 /\ Clocked(cpu') = Clocked(cpu) ]_vars

(* C1 witness: the machine halted on PC overflow and update has been       *)
(* called since                                                            *)
C1_Witness ==
    /\ cpu.halting # 0 /\ cpu.prog_count >= overflow_limit
    /\ phase.clock = "low" /\ phase.updated

(* C1 as stated: once Halted, no later call changes any register, the Sum  *)
(* register, the Flags and the ControlWord included                        *)
C1_HaltedChangesNoRegister ==
    [][ cpu.halting # 0 =>
          \/ cpu' = reset(cpu)
          \/ /\ cpu'.halting # 0
             /\ Clocked(cpu') = Clocked(cpu)
             /\ Combinational(cpu') = Combinational(cpu) ]_vars

(* C2: each W-bit data register (A, B, Sum, IR-A, IR-B, MAR, MDR, Output)  *)
(* and every memory cell holds a value in [0, 2^W - 1]                     *)
C2_WordsInRange ==
    /\ \A r \in { cpu.areg, cpu.breg, cpu.sumreg, cpu.inst_reg_a, cpu.inst_reg_b,
                  cpu.memaddress, cpu.memcontent, cpu.out_regist } : r \in 0 .. M
    /\ \A a \in DOMAIN cpu.memory : cpu.memory[a] \in 0 .. M

(* The control word update selects when IR-A holds op and the timestep is  *)
(* at the last control word of op's microbody, from any state of the       *)
(* machine                                                                 *)
last_control_word(op) ==
    control_lookup([cpu EXCEPT !.inst_reg_a = op,
                               !.op_timestep = Len(assembly(op)) + 1])

(* C7 (as amended): for every opcode of the microcode table other than HLT *)
(* (whose only control word is HLT), the last control word of its          *)
(* microbody asserts ORE                                                   *)
C7_LastWordHasORE_ExceptHLT ==
    \A op \in defined_opcodes \ {instruction_map.HLT} :
        /\ Len(assembly(op)) > 0
        /\ "ORE" \in last_control_word(op)

(* C7 witness: the machine is at the last control word of LDI, with ORE *)
C7_Witness ==
    /\ cpu.inst_reg_a = instruction_map.LDI
    /\ cpu.op_timestep - 1 = Len(assembly(cpu.inst_reg_a))
    /\ phase.updated /\ "ORE" \in cpu.controlword

(* C7 as stated: every opcode of the table, HLT included *)
C7_LastWordHasORE ==
    \A op \in defined_opcodes :
        /\ Len(assembly(op)) > 0
        /\ "ORE" \in last_control_word(op)

(* C8: update, clock_high and clock_low never raise a host error *)
C8_NeverRaises == cpu.error = "none"

----------------------------------------------------------------------------
(* The ALU as a pure function, in both machines that carry one:            *)
(* Computer.update_ALU of cpu_sim.py and Computer.update_ALU of 8bitsim.py *)

legacy_limit == 256

(* 8bitsim.py Computer.update_ALU(subtract): a - b on the subtract path *)
legacy_update_ALU(a, b, subtract) ==
    LET raw   == IF subtract THEN a - b ELSE a + b
        sum   == wrap_up(wrap_down(raw, legacy_limit), legacy_limit)
        carry == IF raw >= legacy_limit \/ raw < 0 THEN 1 ELSE 0
        zero  == IF sum = 0 THEN 1 ELSE 0
    IN  [ sumreg |-> sum, carry |-> carry, zero |-> zero,
          flags |-> 2 * carry + zero ]

ALUValues == {0, 1, 2, 3, 5, 127, 128, 254, 255}
Machines == {"cpu_sim", "8bitsim"}

InitALU ==
    /\ alu \in [ machine : Machines, areg : ALUValues, breg : ALUValues,
                 su : BOOLEAN, done : {FALSE},
                 sumreg : {0}, carry : {0}, zero : {0}, flags : {0} ]
    /\ cpu = Idle /\ phase = Idle /\ asm = Idle /\ ld = Idle /\ pp = Idle /\ cc = Idle /\ lcd = Idle
    /\ ps = Idle

(* update_ALU with the A and B registers and the SU signal as they stand *)
UpdateALU ==
    /\ ~alu.done
    /\ LET r == IF alu.machine = "cpu_sim"
                THEN update_ALU(alu.areg, alu.breg, alu.su)
                ELSE legacy_update_ALU(alu.areg, alu.breg, alu.su)
       IN alu' = [alu EXCEPT !.done = TRUE, !.sumreg = r.sumreg,
                             !.carry = r.carry, !.zero = r.zero,
                             !.flags = r.flags]
    /\ UNCHANGED <<cpu, phase, asm, ld, pp, cc, lcd, ps>>

NextALU == UpdateALU

SpecALU == InitALU /\ [][NextALU]_vars

(* C6: after update_ALU, with SU asserted the carry flag is set exactly    *)
(* when A >= B and Sum = (A - B) mod 2^W; with SU clear it is set exactly  *)
(* when A + B >= 2^W and Sum = (A + B) mod 2^W                             *)
C6_CarryAndSum ==
    alu.done =>
      IF alu.su
      THEN /\ (alu.carry = 1) <=> (alu.areg >= alu.breg)
           /\ alu.sumreg = (alu.areg - alu.breg) % overflow_limit
      ELSE /\ (alu.carry = 1) <=> (alu.areg + alu.breg >= overflow_limit)
           /\ alu.sumreg = (alu.areg + alu.breg) % overflow_limit

----------------------------------------------------------------------------
(* The module assembler applied to one instruction line with any number of *)
(* operands: tools/assembler_core.assemble_lines on the store that         *)
(* compile_routines.assemble_snippet hands it                              *)

snippet_memory_size == 8192

(* The operand count of a mnemonic in the canonical opcode list *)
operand_count(m) ==
    IF m \in {"NOP", "KEI", "PHA", "PLA", "LDS", "RET", "SAS", "LAS", "RSA",
              "LSA", "OUT", "HLT"} THEN 0 ELSE 1

(* assemble_snippet(lines): a fresh store, then assemble_lines *)
assemble_snippet(lines) == assemble_lines(lines, snippet_memory_size)

AsmMnemonics == {"LDI", "ADD", "STA", "CPI", "OUT", "HLT", "JMP", "JSR", "JNZ"}
AsmOperands ==
    { << "1" >>, << "2" >>, << ".", "x" >>, << ".", "y" >>, << "#", "1" >>,
      << "L" >>, << "E" >> }
MaxOperands == 2

OperandLists ==
    UNION { [1 .. n -> AsmOperands] : n \in 0 .. MaxOperands }

(* The targets of the variable-into-memory line: 9, the last cell 8191,   *)
(* 8192 and 0-1                                                            *)
AsmTargets ==
    { << "9" >>, << "8", "1", "9", "1" >>, << "8", "1", "9", "2" >>, << "0", "-", "1" >> }

(* `x = 7`, `TARGET = 3`, the instruction line, `L:`, `HLT`, `E:` *)
AsmSource(m, ops, target) ==
    << Ptr("x", 7), [kind |-> "mem", addr |-> target, value |-> << "3" >>],
       [kind |-> "ins", toks |-> << << m >> >> \o ops],
       Label("L"), Ins0("HLT"), Label("E") >>

InitAsm ==
    /\ \E m \in AsmMnemonics, ops \in OperandLists, target \in AsmTargets :
         asm = [ mnemonic |-> m, operands |-> ops, target |-> target, done |-> FALSE,
                 out |-> asm_start, out_cpu |-> asm_start ]
    /\ cpu = Idle /\ phase = Idle /\ alu = Idle /\ ld = Idle /\ pp = Idle /\ cc = Idle /\ lcd = Idle
    /\ ps = Idle

Assemble ==
    /\ ~asm.done
    /\ asm' = [asm EXCEPT !.done = TRUE,
                          !.out = assemble_snippet(AsmSource(asm.mnemonic, asm.operands, asm.target)),
                          !.out_cpu = assembler(AsmSource(asm.mnemonic, asm.operands, asm.target))]
    /\ UNCHANGED <<cpu, phase, alu, ld, pp, cc, lcd, ps>>

NextAsm == Assemble

SpecAsm == InitAsm /\ [][NextAsm]_vars

(* C9: assembling an instruction line whose number of operands is not the  *)
(* operand count of its mnemonic ends in a fatal assembly error            *)
C9_OperandCountMismatchFatal ==
    (asm.done /\ Len(asm.operands) # operand_count(asm.mnemonic))
        => asm.out.err # "none"

----------------------------------------------------------------------------
(* The module loader: tools/compile_routines.py                            *)
(*                                                                         *)
(* A module file is [stem, header_lines, body]: the file name without its  *)
(* extension, the `;! key: value` lines as <<key, value>> pairs (a value   *)
(* is a token), and the other lines in the form the assembler model reads. *)
(* A symbol (module name, entry label) is one identifier atom.             *)

base_cursor_start == 20000
bss_auto_start_0 == 120000
data_auto_start_0 == 130000
default_bss_size == 512
default_align == 100
default_bss_align == 16
data_align == 16
min_mem_cap == 200000

(* str.lower() on the identifiers the module files use *)
lower(s) ==
    CASE s = "A" -> "a" [] s = "B" -> "b" [] s = "C" -> "c"
      [] s = "START" -> "start" [] s = "BASE" -> "base" [] s = "BSS" -> "bss"
      [] s = "ENTRY" -> "entry" [] s = "AUTO" -> "auto" [] s = "NONE" -> "none"
      [] OTHER -> s

(* headers[k.strip().lower()] = v.strip() over the `;!` lines, in order *)
RECURSIVE parse_headers(_, _)
parse_headers(headers, header_lines) ==
    IF header_lines = << >> THEN headers
    ELSE parse_headers(put(headers, lower(Head(header_lines)[1]), Head(header_lines)[2]),
                       Tail(header_lines))

(* headers.get(key, default) *)
header_get(headers, key, default) ==
    IF key \in DOMAIN headers THEN headers[key] ELSE default

(* `JSR @name` *)
is_extern_call(line) ==
    /\ line.kind = "ins" /\ Len(line.toks) = 2
    /\ line.toks[1] = << "JSR" >>
    /\ line.toks[2] # << >> /\ Head(line.toks[2]) = "@"

(* The names given a value by `name = ...` lines that do not start with `.` *)
defined_ptrs(body) ==
    { body[i].name : i \in { j \in 1 .. Len(body) : body[j].kind = "ptr" } }

(* `.name = NUMBER` with name not among the defined pointers *)
is_auto_data(line, defined) ==
    /\ line.kind = "mem" /\ Len(line.addr) = 2 /\ line.addr[1] = "."
    /\ << line.addr[2] >> \notin defined
    /\ is_int(line.value)

(* Second pass of parse_headers_and_preprocess over the body: extern calls *)
(* become `JSR #0` and are listed, auto data items get their offsets       *)
RECURSIVE preprocess(_, _, _)
preprocess(body, defined, acc) ==
    IF body = << >> THEN acc
    ELSE LET line == Head(body)
             l1 == IF is_extern_call(line)
                   THEN [line EXCEPT !.toks[2] = << "#", "0" >>] ELSE line
             a1 == IF is_extern_call(line)
                   THEN [acc EXCEPT !.extern_calls = Append(@, line.toks[2][2])]
                   ELSE acc
             a2 == IF is_auto_data(line, defined)
                   THEN [a1 EXCEPT !.data_items =
                             Append(@, [name |-> line.addr[2],
                                        off |-> a1.data_cursor,
                                        words |-> << int_of(line.value) >>]),
                                   !.data_cursor = @ + 1]
                   ELSE a1
         IN preprocess(Tail(body), defined, [a2 EXCEPT !.lines = Append(@, l1)])

(* parse_headers_and_preprocess(text) *)
parse_headers_and_preprocess(file) ==
    LET r == preprocess(file.body, defined_ptrs(file.body),
                        [lines |-> << >>, extern_calls |-> << >>,
                         data_items |-> << >>, data_cursor |-> 0])
    IN [ headers |-> parse_headers(<< >>, file.header_lines),
         lines |-> r.lines, extern_calls |-> r.extern_calls,
         data_items |-> r.data_items ]

(* The characters of a source line with the spaces removed, as atoms *)
line_atoms(line) ==
    CASE line.kind = "ins"   -> join(line.toks)
      [] line.kind = "mem"   -> line.addr \o << "=" >> \o line.value
      [] line.kind = "ptr"   -> line.name \o << "=" >> \o line.rhs
      [] line.kind = "label" -> line.name \o << ":" >>

(* The digits that follow position k *)
RECURSIVE digit_run(_, _)
digit_run(atoms, k) ==
    IF k <= Len(atoms) /\ atoms[k] \in Digits
    THEN << atoms[k] >> \o digit_run(atoms, k + 1) ELSE << >>

(* _scan_bss_required: the largest N of a `.bss+N` plus one; 1 when `.bss` *)
(* occurs without an offset; 0 when it does not occur                      *)
scan_bss_required(src_lines) ==
    LET atoms(i) == line_atoms(src_lines[i])
        uses == { i \in 1 .. Len(src_lines) :
                    \E j \in 1 .. Len(atoms(i)) - 1 :
                        atoms(i)[j] = "." /\ atoms(i)[j + 1] = "bss" }
        sites(i) == { j \in 1 .. Len(atoms(i)) - 2 :
                        /\ atoms(i)[j] = "." /\ atoms(i)[j + 1] = "bss"
                        /\ atoms(i)[j + 2] = "+"
                        /\ digit_run(atoms(i), j + 3) # << >> }
        offs == UNION { { int_of(digit_run(atoms(i), j + 3)) : j \in sites(i) } :
                          i \in 1 .. Len(src_lines) }
    IN IF offs # {} THEN (CHOOSE m \in offs : \A o \in offs : o <= m) + 1
       ELSE IF uses # {} THEN 1 ELSE 0

(* ((x + align - 1) // align) * align *)
align_up(x, align) == ((x + align - 1) \div align) * align

max(a, b) == IF a >= b THEN a ELSE b

(* The OS ABI pointer lines injected when abi is "os" *)
abi_lines ==
    << Ptr("char", 4000), Ptr("textloc", 4001), Ptr("arg1", 4002),
       Ptr("arg2", 4003), Ptr("res1", 4004), Ptr("res2", 4005),
       Ptr("pow2", 4006), Ptr("num_digits", 4007), Ptr("ascii_start", 4008),
       Ptr("work1", 4010), Ptr("work2", 4011), Ptr("work3", 4012),
       Ptr("work4", 4013), Ptr("argv_base", 4400), Ptr("argv_buf", 4500),
       Ptr("prog_table", 10000) >>

(* `not (a_end <= s or a_start >= e)` *)
ranges_overlap(a, b) == ~ (a[2] <= b[1] \/ a[1] >= b[2])

(* The aligned cursor taken as it is, without the scan of the ranges *)
first_free_unscanned(addr, ranges, code_len, align) == addr

(* The first aligned address from addr on whose [addr, addr + code_len)    *)
(* overlaps no used range; each overlap bumps addr past the first          *)
(* overlapping range of the sorted list                                    *)
RECURSIVE first_free(_, _, _, _)
first_free(addr, ranges, code_len, align) ==
    LET hit == { r \in ranges : ranges_overlap(<<addr, addr + code_len>>, r) } IN
    IF hit = {} THEN addr
    ELSE LET r == CHOOSE x \in hit : \A q \in hit :
                      x[1] < q[1] \/ (x[1] = q[1] /\ x[2] <= q[2])
         IN first_free(align_up(r[2], align), ranges, code_len, align)

(* The code indexes of the instructions whose tokens read `JSR 0` after    *)
(* assembly                                                                *)
RECURSIVE jsr_zero_code_indexes(_, _)
jsr_zero_code_indexes(program, code_index) ==
    IF program = << >> THEN << >>
    ELSE LET tokens == Head(program).tokens
             rest   == jsr_zero_code_indexes(Tail(program), code_index + Len(tokens))
         IN IF Len(tokens) = 2 /\ tokens[1] = << "JSR" >> /\ tokens[2] = << "0" >>
            THEN << code_index >> \o rest ELSE rest

(* The code words left as the assembler wrote them *)
relocate_jumps_nowhere(code_words, program, idx, base_addr) == code_words

(* relocate_jumps_in_place(code, program, map, base_addr, relocate_jsr=True):  *)
(* JMP/JPZ/JPC operands get the base added, a JSR operand only when it is  *)
(* below the code length                                                   *)
RECURSIVE relocate_jumps_in_place(_, _, _, _)
relocate_jumps_in_place(code_words, program, idx, base_addr) ==
    IF program = << >> THEN code_words
    ELSE LET tokens == Head(program).tokens
             opcode == build_instruction_map[mnemonic_of(tokens[1])]
             map    == build_instruction_map
         IN IF Len(tokens) > 1
            THEN LET w == IF opcode = map.JSR
                          THEN IF code_words[idx + 2] < Len(code_words)
                               THEN [code_words EXCEPT ![idx + 2] = @ + base_addr]
                               ELSE code_words
                          ELSE IF opcode \in {map.JMP, map.JPZ, map.JPC}
                               THEN [code_words EXCEPT ![idx + 2] = @ + base_addr]
                               ELSE code_words
                 IN relocate_jumps_in_place(w, Tail(program), idx + 2, base_addr)
            ELSE relocate_jumps_in_place(code_words, Tail(program), idx + 1, base_addr)

(* The first range of the list that [new_start, new_end) overlaps, or << >> *)
first_conflict(used_bases, new) ==
    LET hit == { i \in 1 .. Len(used_bases) : ranges_overlap(new, used_bases[i]) }
    IN IF hit = {} THEN << >>
       ELSE used_bases[CHOOSE i \in hit : \A j \in hit : i <= j]

(* A raised exception: its type, the file it names and the ranges of an    *)
(* `Overlap:` message                                                      *)
raised(type, text, file, new, old) ==
    [ type |-> type, text |-> text, file |-> file, new |-> new, old |-> old ]

no_error == raised("none", "", "", << >>, << >>)

(* What assemble_dynamic_module leaves behind: the exception or the module *)
(* map, and the cursors; used_bases is the caller's list, changed in place *)
module_result(err, mod_map, base_cursor, used_bases, data_auto_start, bss_auto_start) ==
    [ err |-> err, mod_map |-> mod_map, base_cursor |-> base_cursor,
      used_bases |-> used_bases, data_auto_start |-> data_auto_start,
      bss_auto_start |-> bss_auto_start ]

(* f"{name}_data" on the module names in use *)
data_module_name(name) ==
    CASE name = "a" -> "a_data" [] name = "b" -> "b_data"
      [] name = "c" -> "c_data" [] OTHER -> "_data"

(* words[off + i] = b over the data items *)
data_words(data_items, data_len) ==
    [ k \in 1 .. data_len |->
        LET hit == { i \in 1 .. Len(data_items) :
                       /\ data_items[i].off <= k - 1
                       /\ k - 1 < data_items[i].off + Len(data_items[i].words) }
        IN IF hit = {} THEN 0
           ELSE LET i == CHOOSE x \in hit : \A y \in hit : y <= x
                IN data_items[i].words[k - data_items[i].off] ]

(* assemble_dynamic_module, headers to the injected lines: the header     *)
(* values, the BSS range appended to used_bases, the data layout and the   *)
(* source handed to the assembler                                          *)
module_layout(file, pre, used_bases, bss_auto_start, data_auto_start) ==
    LET h         == pre.headers
        bss_raw   == header_get(h, "bss", << "auto" >>)
        bss       == IF is_int(bss_raw) THEN bss_raw ELSE << lower(bss_raw[1]) >>
        bss_align == int_of(header_get(h, "bss_align", str_of(default_bss_align)))
        bss_base  == IF bss = << "auto" >> THEN align_up(bss_auto_start, bss_align)
                     ELSE IF is_int(bss) THEN int_of(bss) ELSE 0
        has_bss   == bss = << "auto" >> \/ is_int(bss)
        data_len  == Len(join([i \in 1 .. Len(pre.data_items) |-> pre.data_items[i].words]))
        data_base == IF data_len > 0 THEN align_up(data_auto_start, data_align) ELSE 0
    IN [ name       |-> lower(header_get(h, "name", << file.stem >>)[1]),
         entry      |-> header_get(h, "entry", << "start" >>)[1],
         align      |-> int_of(header_get(h, "align", str_of(default_align))),
         abi        |-> lower(header_get(h, "abi", << "os" >>)[1]),
         auto_bss   |-> bss = << "auto" >>,
         has_bss    |-> has_bss,
         bss_base   |-> bss_base,
         bss_size   |-> max(default_bss_size, scan_bss_required(pre.lines)),
         data_len   |-> data_len,
         data_base  |-> data_base,
         data_ptrs  |-> [i \in 1 .. Len(pre.data_items) |->
                           Ptr(pre.data_items[i].name, data_base + pre.data_items[i].off)] ]

(* assemble_dynamic_module from the relocation on: the jumps relocated,    *)
(* the overlap tests of the code and the data range, the module map        *)
module_emit(file, pre, lay, ub1, st, code_len, base_addr, cursors) ==
    LET sites     == jsr_zero_code_indexes(st.program, 0)
        new       == << base_addr, base_addr + code_len >>
        clash     == first_conflict(ub1, new)
        mod       == [ base |-> base_addr, length |-> code_len,
                       words |-> relocate_jumps_in_place(
                                   [i \in 1 .. code_len |-> read(st.mem, i - 1)],
                                   st.program, 0, base_addr),
                       entry |-> lay.entry,
                       externs |-> [i \in 1 .. Len(sites) |->
                                      [code_index |-> sites[i],
                                       symbol |-> pre.extern_calls[i]]],
                       bss |-> IF lay.has_bss THEN << lay.bss_base, lay.bss_size >>
                               ELSE << >> ]
        ub2       == Append(ub1, new)
        d_range   == << lay.data_base, lay.data_base + lay.data_len >>
        d_clash   == first_conflict(ub2, d_range)
        d_mod     == [ base |-> lay.data_base, length |-> lay.data_len,
                       words |-> data_words(pre.data_items, lay.data_len),
                       entry |-> "", externs |-> << >>, bss |-> << >> ]
        bss_next  == IF lay.auto_bss THEN lay.bss_base + lay.bss_size
                     ELSE cursors.bss_auto_start
    IN
    IF Len(sites) # Len(pre.extern_calls)
      THEN module_result(raised("ValueError", "Extern calls count mismatch", file.stem,
                                << >>, << >>),
                         << >>, cursors.base_cursor, ub1,
                         cursors.data_auto_start, cursors.bss_auto_start)
    ELSE IF clash # << >>
      THEN module_result(raised("ValueError", "Overlap", file.stem, new, clash),
                         << >>, cursors.base_cursor, ub1,
                         cursors.data_auto_start, cursors.bss_auto_start)
    ELSE IF lay.data_len > 0 /\ d_clash # << >>
      THEN module_result(raised("ValueError", "Overlap: data", file.stem, d_range, d_clash),
                         << >>, cursors.base_cursor, ub2,
                         cursors.data_auto_start, cursors.bss_auto_start)
    ELSE IF lay.data_len > 0
      THEN module_result(no_error,
                         << [name |-> lay.name, mod |-> mod],
                            [name |-> data_module_name(lay.name), mod |-> d_mod] >>,
                         base_addr + code_len, Append(ub2, d_range),
                         lay.data_base + lay.data_len + data_align, bss_next)
    ELSE module_result(no_error, << [name |-> lay.name, mod |-> mod] >>,
                       base_addr + code_len, ub2, cursors.data_auto_start, bss_next)

(* assemble_dynamic_module, the base selection: the `base` header, or the  *)
(* first free aligned address from the cursor on                           *)
module_base(file, pre, lay, ub1, st, code_len, cursors) ==
    IF st.err # "none"
      THEN module_result(raised(st.err, "assembly", file.stem, << >>, << >>),
                         << >>, cursors.base_cursor, ub1,
                         cursors.data_auto_start, cursors.bss_auto_start)
    ELSE IF "base" \in DOMAIN pre.headers /\ ~ is_int(pre.headers.base)
      THEN module_result(raised("ValueError", "invalid literal", file.stem, << >>, << >>),
                         << >>, cursors.base_cursor, ub1,
                         cursors.data_auto_start, cursors.bss_auto_start)
    ELSE IF "base" \notin DOMAIN pre.headers /\ lay.align = 0
      THEN module_result(raised("ZeroDivisionError", "integer division or modulo by zero",
                                file.stem, << >>, << >>),
                         << >>, cursors.base_cursor, ub1,
                         cursors.data_auto_start, cursors.bss_auto_start)
    ELSE module_emit(file, pre, lay, ub1, st, code_len,
                     IF "base" \in DOMAIN pre.headers THEN int_of(pre.headers.base)
                     ELSE first_free(align_up(cursors.base_cursor, lay.align),
                                     { ub1[i] : i \in 1 .. Len(ub1) },
                                     code_len, lay.align),
                     cursors)

(* assemble_dynamic_module, the assembly of the module source behind the   *)
(* injected pointer lines, in a memory of max(200000, data end + 64) words *)
module_assemble(file, pre, lay, ub1, st, cursors) ==
    module_base(file, pre, lay, ub1, st,
                Len(join([i \in 1 .. Len(st.program) |-> st.program[i].tokens])),
                cursors)

module_source(file, pre, lay, used_bases, cursors) ==
    module_assemble(
        file, pre, lay,
        IF lay.has_bss
        THEN Append(used_bases, << lay.bss_base, lay.bss_base + lay.bss_size >>)
        ELSE used_bases,
        assemble_lines((IF lay.abi = "os" THEN abi_lines ELSE << >>)
                         \o (IF lay.has_bss THEN << Ptr("bss", lay.bss_base) >>
                             ELSE << >>)
                         \o lay.data_ptrs \o pre.lines,
                       max(min_mem_cap, lay.data_base + lay.data_len + 64)),
        cursors)

module_headers(file, pre, used_bases, cursors) ==
    module_source(file, pre,
                  module_layout(file, pre, used_bases, cursors.bss_auto_start,
                                cursors.data_auto_start),
                  used_bases, cursors)

assemble_dynamic_module(file, used_bases, base_cursor, bss_auto_start, known_symbols, data_auto_start) ==
    module_headers(file, parse_headers_and_preprocess(file), used_bases,
                   [ base_cursor |-> base_cursor, bss_auto_start |-> bss_auto_start,
                     data_auto_start |-> data_auto_start ])

(* has_base(p): a `;!` line whose key is `base` and whose value is not empty *)
has_base(file) ==
    \E i \in 1 .. Len(file.header_lines) :
        /\ lower(file.header_lines[i][1]) = "base"
        /\ file.header_lines[i][2] # << >>

(* The order of the file names *)
name_order == << "a", "b", "c" >>
name_rank(stem) == CHOOSE i \in 1 .. Len(name_order) : name_order[i] = stem

(* srcs.sort(key = (0 if has_base else 1, name)) *)
RECURSIVE sort_srcs(_)
sort_srcs(files) ==
    IF files = {} THEN << >>
    ELSE LET key(f) == (IF has_base(f) THEN 0 ELSE 10) + name_rank(f.stem)
             f == CHOOSE x \in files : \A y \in files : key(x) <= key(y)
         IN << f >> \o sort_srcs(files \ {f})

(* main() before the first module is read *)
main_start(files) ==
    [ srcs |-> sort_srcs(files), next |-> 1, pass |-> "first",
      data |-> << >>, names |-> << >>, known_symbols |-> << >>,
      used_ranges |-> << >>, base_cursor |-> base_cursor_start,
      bss_auto_start |-> bss_auto_start_0, data_auto_start |-> data_auto_start_0,
      modules_to_patch |-> << >>, out |-> << >>, exit |-> "running",
      program_table |-> << >> ]

(* Merge of one placed module: data[k] = v, known_symbols[k] = base, and   *)
(* known_symbols[entry.lower()] = base when the module has an entry        *)
RECURSIVE merge_modules(_, _)
merge_modules(m, mod_map) ==
    IF mod_map = << >> THEN m
    ELSE LET k  == Head(mod_map).name
             v  == Head(mod_map).mod
             s1 == put(m.known_symbols, k, v.base)
             s2 == IF v.entry # "" THEN put(s1, lower(v.entry), v.base) ELSE s1
         IN merge_modules([m EXCEPT !.data = put(m.data, k, v),
                                    !.names = IF k \in DOMAIN m.data THEN @
                                              ELSE Append(@, k),
                                    !.known_symbols = s2,
                                    !.modules_to_patch = Append(@, k)],
                          Tail(mod_map))

(* One turn of the first-pass loop: the module is placed, or the exception *)
(* is printed as `Skipping <file>: ...` and the loop goes on               *)
record_module(m, r) ==
    IF r.err.type = "none"
    THEN [merge_modules(m, r.mod_map) EXCEPT
             !.next = m.next + 1, !.used_ranges = r.used_bases,
             !.base_cursor = r.base_cursor,
             !.bss_auto_start = r.bss_auto_start,
             !.data_auto_start = r.data_auto_start]
    ELSE [m EXCEPT !.next = m.next + 1, !.used_ranges = r.used_bases,
                   !.out = Append(@, [kind |-> "Skipping",
                                      names |-> {r.err.file}, err |-> r.err])]

(* The call of assemble_dynamic_module for the next source file *)
place_module(m) ==
    record_module(m, assemble_dynamic_module(m.srcs[m.next], m.used_ranges,
                                             m.base_cursor, m.bss_auto_start,
                                             m.known_symbols, m.data_auto_start))

(* words[ci + 1] = int(target), left undone *)
patch_site_skipped(words, ci, target) == words

(* words[ci + 1] = int(target) *)
patch_site(words, ci, target) == [words EXCEPT ![ci + 2] = target]

(* Second pass over the extern sites of one module, from site i on *)
RECURSIVE resolve_externs(_, _, _)
resolve_externs(m, name, i) ==
    LET mod == m.data[name] IN
    IF i > Len(mod.externs) \/ m.exit # "running" THEN m
    ELSE LET ci  == mod.externs[i].code_index
             sym == lower(mod.externs[i].symbol)
         IN IF sym \notin DOMAIN m.known_symbols
            THEN [m EXCEPT !.exit = "ValueError",
                           !.out = Append(@, [kind |-> "unknown symbol",
                                              names |-> {name, sym},
                                              err |-> no_error])]
            ELSE IF ci + 1 >= Len(mod.words)
            THEN [m EXCEPT !.exit = "ValueError",
                           !.out = Append(@, [kind |-> "extern site out of range",
                                              names |-> {name}, err |-> no_error])]
            ELSE resolve_externs(
                   [m EXCEPT !.data[name].words =
                                 patch_site(@, ci, m.known_symbols[sym])],
                   name, i + 1)

(* Second pass: every placed module in turn, its extern list deleted after *)
RECURSIVE resolve_all(_, _)
resolve_all(m, j) ==
    IF j > Len(m.modules_to_patch) \/ m.exit # "running" THEN m
    ELSE LET name == m.modules_to_patch[j]
             m1   == resolve_externs(m, name, 1)
         IN resolve_all(IF m1.exit = "running"
                        THEN [m1 EXCEPT !.data[name].externs = << >>] ELSE m1,
                        j + 1)

(* ranges.sort(key = base) over data.items(), a stable sort *)
RECURSIVE sort_ranges(_, _)
sort_ranges(data, names) ==
    IF names = << >> THEN << >>
    ELSE LET idx == { i \in 1 .. Len(names) :
                        \A j \in 1 .. Len(names) :
                            data[names[i]].base < data[names[j]].base
                            \/ (data[names[i]].base = data[names[j]].base /\ i <= j) }
             i == CHOOSE x \in idx : TRUE
         IN << names[i] >>
            \o sort_ranges(data, SubSeq(names, 1, i - 1)
                                   \o SubSeq(names, i + 1, Len(names)))

(* Third pass: neighbours of the sorted list with s < prev_e *)
overlaps(data, names) ==
    LET ranges == sort_ranges(data, names) IN
    { << ranges[i - 1], ranges[i] >> :
        i \in { k \in 2 .. Len(ranges) :
                  data[ranges[k]].base
                    < data[ranges[k - 1]].base + data[ranges[k - 1]].length } }

(* pt_base when emulator_os.txt has no `prog_table =` line *)
pt_base == 10000

(* [ord(ch) for ch in str(name).upper()] on the module names in use *)
name_codes(name) ==
    CASE name = "a" -> << 65 >> [] name = "b" -> << 66 >> [] name = "c" -> << 67 >>
      [] name = "calculator" -> << 67, 65, 76, 67, 85, 76, 65, 84, 79, 82 >>
      [] OTHER -> << >>

(* One entry: name[0..7] padded with zeros, the base address, reserved 0 *)
table_entry(name, mod) ==
    LET nm == name_codes(name) IN
    [i \in 1 .. 8 |-> IF i <= Len(nm) THEN nm[i] ELSE 0] \o << mod.base, 0 >>

(* The listed modules in the order of data.items(), without the sort *)
table_entries_unsorted(data, names) ==
    SelectSeq(names, LAMBDA k : data[k].entry # "")

(* entries: data.items() sorted by base, the modules with an `entry` kept *)
table_entries(data, names) ==
    SelectSeq(sort_ranges(data, names), LAMBDA k : data[k].entry # "")

(* table_words: the entries in turn and the sentinel *)
RECURSIVE table_words(_, _)
table_words(data, entries) ==
    IF entries = << >> THEN << 0 >>
    ELSE table_entry(Head(entries), data[Head(entries)])
           \o table_words(data, Tail(entries))

(* data["program_table"] *)
program_table(data, names) ==
    LET words == table_words(data, table_entries(data, names)) IN
    [ base |-> pt_base, length |-> Len(words), words |-> words ]

(* Third pass: `Error: program base ranges overlap:` and SystemExit(1), or *)
(* the program table is built and the image is written                     *)
third_pass(m) ==
    LET o == overlaps(m.data, m.names) IN
    IF o # {}
    THEN [m EXCEPT !.pass = "done", !.exit = "1",
                   !.out = Append(@, [kind |-> "Error: program base ranges overlap",
                                      names |-> UNION { {x[1], x[2]} : x \in o },
                                      err |-> no_error])]
    ELSE [m EXCEPT !.pass = "done", !.exit = "0",
                   !.program_table = program_table(m.data, m.names)]

----------------------------------------------------------------------------
(* Builds: the module files found by main() *)

filler(n) == [i \in 1 .. n |-> Ins1("LDI", << "1" >>)]

(* 30 words of code that call nothing *)
LeafBody == << Label("start") >> \o filler(14) \o << Ins0("NOP"), Ins0("RET") >>

(* 30 words of code with one `JSR @sym` *)
CallBody(sym) ==
    << Label("start"), Ins1("JSR", << "@", sym >>) >> \o filler(13)
      \o << Ins0("NOP"), Ins0("RET") >>

(* 30 words of code that call their own entry label, the first line *)
SelfCallBody ==
    << Label("start"), Ins1("JSR", << "start" >>) >> \o filler(13)
      \o << Ins0("NOP"), Ins0("RET") >>

(* 30 words of code that call their own entry label and the routine a *)
SelfCallExternBody ==
    << Label("start"), Ins1("JSR", << "start" >>), Ins1("JSR", << "@", "a" >>) >>
      \o filler(12) \o << Ins0("NOP"), Ins0("RET") >>

(* 16 words of code with every kind of jump: to a label inside the module, *)
(* to its first line, and a call of an address outside the module          *)
JumpBody ==
    << Label("start"), Ins1("JMP", << "l" >>), Ins1("JPZ", << "l" >>),
       Ins1("JPC", << "start" >>), Ins1("JSR", << "l" >>),
       Ins1("JSR", << "#" >> \o str_of(5000)), Ins1("JNZ", << "l" >>),
       Ins1("LDI", << "1" >>), Label("l"), Ins0("NOP"), Ins0("RET") >>

(* 30 words of code and one word of auto data *)
DataBody ==
    << [kind |-> "mem", addr |-> << ".", "v" >>, value |-> << "5" >>],
       Label("start") >> \o filler(13) \o << Ins1("LDA", << ".", "v" >>), Ins0("RET") >>

header(key, values) == { << >> } \cup { << << key, v >> >> : v \in values }

FilesA ==
    { [stem |-> "a", header_lines |-> hb, body |-> LeafBody] :
        hb \in header("base", { str_of(100), str_of(120512) }) }

FilesB ==
    { [stem |-> "b", header_lines |-> hb \o hs \o he, body |-> body] :
        hb \in header("base", { str_of(120) }),
        hs \in header("bss", { << "none" >>, str_of(20000) }),
        he \in header("entry", { << "a" >>, << "A" >> }),
        body \in { LeafBody, CallBody("a"), DataBody } }

FilesC ==
    { [stem |-> "c", header_lines |-> ha \o hn, body |-> body] :
        ha \in header("align", { str_of(0), str_of(64) }),
        hn \in header("name", { << "calculator" >> }),
        body \in { CallBody("a"), CallBody("b"), SelfCallBody, SelfCallExternBody,
                   JumpBody } }

Builds ==
    { {a, b} : a \in FilesA, b \in FilesB }
      \cup { {a, b, c} : a \in FilesA, b \in FilesB, c \in FilesC }

InitLink ==
    /\ \E files \in Builds : ld = main_start(files)
    /\ cpu = Idle /\ phase = Idle /\ alu = Idle /\ asm = Idle /\ pp = Idle /\ cc = Idle /\ lcd = Idle
    /\ ps = Idle

(* First pass, one module *)
PlaceModule ==
    /\ ld.pass = "first" /\ ld.next <= Len(ld.srcs)
    /\ ld' = place_module(ld)
    /\ UNCHANGED <<cpu, phase, alu, asm, pp, cc, lcd, ps>>

(* Second pass, when every module was read *)
ResolveExterns ==
    /\ ld.pass = "first" /\ ld.next > Len(ld.srcs)
    /\ ld' = LET m == resolve_all(ld, 1)
             IN [m EXCEPT !.pass = IF m.exit = "running" THEN "third" ELSE "done"]
    /\ UNCHANGED <<cpu, phase, alu, asm, pp, cc, lcd, ps>>

(* Third pass, and the end of the run *)
CheckOverlaps ==
    /\ ld.pass = "third"
    /\ ld' = third_pass(ld)
    /\ UNCHANGED <<cpu, phase, alu, asm, pp, cc, lcd, ps>>

NextLink == PlaceModule \/ ResolveExterns \/ CheckOverlaps

SpecLink == InitLink /\ [][NextLink]_vars

----------------------------------------------------------------------------
(* Claims about the module loader *)

(* A module file assembled on its own: its configured placement *)
alone(file) ==
    assemble_dynamic_module(file, << >>, base_cursor_start, bss_auto_start_0,
                            << >>, data_auto_start_0)

(* The key of the module of a file in the image: its `name` header, the  *)
(* stem of the file when it has none, in lower case                        *)
module_key(file) ==
    lower(header_get(parse_headers_and_preprocess(file).headers, "name",
                     << file.stem >>)[1])

Placed == DOMAIN ld.data
Succeeded == ld.pass = "done" /\ ld.exit = "0"

code_range(mod) == << mod.base, mod.base + mod.length >>
bss_range(mod) == << mod.bss[1], mod.bss[1] + mod.bss[2] >>

(* C3: after a successful build, the range [base, base + length) of every  *)
(* placed module (code or data) overlaps no other placed module's code or  *)
(* data range and no other module's BSS range                              *)
C3_PlacedRegionsDisjoint ==
    Succeeded =>
      \A m \in Placed : \A n \in Placed \ {m} :
          /\ ~ ranges_overlap(code_range(ld.data[m]), code_range(ld.data[n]))
          /\ ld.data[n].bss # << >> =>
               ~ ranges_overlap(code_range(ld.data[m]), bss_range(ld.data[n]))

(* Two files with a `;! base` header whose code ranges, as configured,     *)
(* overlap                                                                 *)
ConfiguredOverlap(f, g) ==
    /\ f.stem # g.stem /\ has_base(f) /\ has_base(g)
    /\ alone(f).err.type = "none" /\ alone(g).err.type = "none"
    /\ ranges_overlap(code_range(alone(f).mod_map[1].mod),
                      code_range(alone(g).mod_map[1].mod))

(* C4: when two modules' configured code ranges overlap, the run ends with *)
(* a non-zero exit status and an error that names both modules             *)
C4_ConfiguredOverlapFatal ==
    ld.pass = "done" =>
      \A i \in 1 .. Len(ld.srcs), j \in 1 .. Len(ld.srcs) :
          ConfiguredOverlap(ld.srcs[i], ld.srcs[j]) =>
            /\ ld.exit # "0"
            /\ \E k \in 1 .. Len(ld.out) :
                 {ld.srcs[i].stem, ld.srcs[j].stem} \subseteq ld.out[k].names

(* C22: when a module's number of `JSR 0` sites differs from its number    *)
(* of `@symbol` references, the build ends with a non-zero exit status     *)
C22_ExternCountMismatchFatal ==
    ld.pass = "done" =>
      \A i \in 1 .. Len(ld.srcs) :
          alone(ld.srcs[i]).err.text = "Extern calls count mismatch" => ld.exit # "0"

(* C23: the layout cursor never decreases from one module placement to    *)
(* the next                                                                *)
C23_CursorNeverDecreases == [][ld'.base_cursor >= ld.base_cursor]_vars

(* The file the first pass reads next has no `base` header *)
AutoPlaced == ld.pass = "first" /\ ld.next <= Len(ld.srcs) /\ ~ has_base(ld.srcs[ld.next])

(* The `align` header of a file, 100 when it has none *)
align_of(file) ==
    int_of(header_get(parse_headers_and_preprocess(file).headers, "align",
                      str_of(default_align)))

(* What the placement of the next file says about its base: the module is  *)
(* in the image with a base that is a multiple of align, not below the     *)
(* cursor and clear of every range reserved before it and of its own BSS   *)
(* range; or the file was skipped, and not because the base selection      *)
(* raised or chose an overlapping range                                    *)
base_selected(file, m, n) ==
    IF Len(n.out) > Len(m.out)
    THEN /\ n.out[Len(n.out)].err.type # "ZeroDivisionError"
         /\ n.out[Len(n.out)].err.text # "Overlap"
    ELSE LET mod == n.data[module_key(file)]
             new == << mod.base, mod.base + mod.length >>
         IN /\ mod.base % align_of(file) = 0
            /\ mod.base >= m.base_cursor
            /\ \A i \in 1 .. Len(m.used_ranges) : ~ ranges_overlap(new, m.used_ranges[i])
            /\ mod.bss # << >> =>
                  ~ ranges_overlap(new, << mod.bss[1], mod.bss[1] + mod.bss[2] >>)

(* C24 as stated: for every module without an explicit base, the base      *)
(* selection ends with a base that is a multiple of align, not below the   *)
(* cursor and overlapping no reserved range                                *)
C24_AutoBaseSelected ==
    [][AutoPlaced => base_selected(ld.srcs[ld.next], ld, ld')]_vars

(* C24: for every module without an explicit base and with a positive     *)
(* align, the base selection ends with a base that is a multiple of align, *)
(* not below the cursor and overlapping no range reserved at that point    *)
C24_AutoBaseSelectedPositiveAlign ==
    [][(AutoPlaced /\ align_of(ld.srcs[ld.next]) > 0)
          => base_selected(ld.srcs[ld.next], ld, ld')]_vars

(* A module was placed without an explicit base, past a reserved range the *)
(* aligned cursor ran into                                                 *)
C24_Witness ==
    \E i \in 1 .. Len(ld.srcs) :
        /\ i < ld.next /\ ~ has_base(ld.srcs[i])
        /\ module_key(ld.srcs[i]) \in DOMAIN ld.data
        /\ \E j \in 1 .. Len(ld.used_ranges) :
              /\ ld.used_ranges[j][2] <= ld.data[module_key(ld.srcs[i])].base
              /\ ld.used_ranges[j][2] > ld.data[module_key(ld.srcs[i])].base - align_of(ld.srcs[i])
              /\ ld.used_ranges[j][1] >= base_cursor_start

(* The words the assembler wrote for a placed module, before relocation:   *)
(* the file assembled again behind the same injected lines                 *)
unrelocated_code(pre, lay, length) ==
    LET st == assemble_lines((IF lay.abi = "os" THEN abi_lines ELSE << >>)
                               \o (IF lay.has_bss THEN << Ptr("bss", lay.bss_base) >>
                                   ELSE << >>)
                               \o lay.data_ptrs \o pre.lines,
                             max(min_mem_cap, lay.data_base + lay.data_len + 64))
    IN [ words |-> [i \in 1 .. length |-> read(st.mem, i - 1)], program |-> st.program ]

unrelocated_layout(file, pre, mod, data_base) ==
    unrelocated_code(pre,
                     module_layout(file, pre, << >>,
                                   IF mod.bss = << >> THEN 0 ELSE mod.bss[1], data_base),
                     mod.length)

unrelocated(file) ==
    unrelocated_layout(file, parse_headers_and_preprocess(file), ld.data[module_key(file)],
                       IF data_module_name(module_key(file)) \in Placed
                       THEN ld.data[data_module_name(module_key(file))].base ELSE 0)

(* The operand words of a program: code index and mnemonic *)
RECURSIVE operand_sites(_, _)
operand_sites(program, idx) ==
    IF program = << >> THEN {}
    ELSE LET tokens == Head(program).tokens
         IN IF Len(tokens) > 1
            THEN { << idx + 1, mnemonic_of(tokens[1]) >> }
                   \cup operand_sites(Tail(program), idx + Len(tokens))
            ELSE operand_sites(Tail(program), idx + 1)

(* Word k of a placed module is the assembled word, plus the base when it  *)
(* is the operand of a JMP, JPZ or JPC or of a JSR into the module         *)
relocated_word(mod, u, sites, k) ==
    mod.words[k] =
      u.words[k]
        + (IF \E x \in sites :
                 /\ x[1] = k - 1
                 /\ \/ x[2] \in {"JMP", "JPZ", "JPC"}
                    \/ x[2] = "JSR" /\ u.words[k] < mod.length
           THEN mod.base ELSE 0)

relocated_as_claimed(mod, u) ==
    \A k \in 1 .. mod.length :
        relocated_word(mod, u, operand_sites(u.program, 0), k)

(* C25: relocation to base b adds b to the operand word of every JMP, JPZ  *)
(* and JPC and of every JSR whose operand is below the code length, and    *)
(* leaves every other word of the module as assembled                      *)
C25_RelocationAddsBaseToJumps ==
    ld.pass = "first" =>
      \A i \in 1 .. Len(ld.srcs) :
          (i < ld.next /\ module_key(ld.srcs[i]) \in Placed)
              => relocated_as_claimed(ld.data[module_key(ld.srcs[i])], unrelocated(ld.srcs[i]))

(* C25 witness: the module with every kind of jump is placed at a base     *)
(* other than 0; its JMP operand is base + 14, the JSR of 5000 and the JNZ *)
(* operand are as assembled                                                *)
C25_Witness ==
    /\ ld.pass = "first" /\ "c" \in Placed
    /\ ld.data["c"].length = 16 /\ ld.data["c"].base > 0
    /\ ld.data["c"].words[2] = ld.data["c"].base + 14
    /\ ld.data["c"].words[6] = ld.data["c"].base
    /\ ld.data["c"].words[8] = ld.data["c"].base + 14
    /\ ld.data["c"].words[10] = 5000
    /\ ld.data["c"].words[12] = 14

(* The extern call sites of a placed file: code index and symbol *)
extern_sites(file) ==
    LET e == alone(file).mod_map[1].mod.externs
    IN { << e[i].code_index, lower(e[i].symbol) >> : i \in 1 .. Len(e) }

(* The module placed last among those whose name or entry label is sym *)
last_definer(sym) ==
    LET defs == { i \in 1 .. Len(ld.modules_to_patch) :
                    \/ ld.modules_to_patch[i] = sym
                    \/ /\ ld.data[ld.modules_to_patch[i]].entry # ""
                       /\ lower(ld.data[ld.modules_to_patch[i]].entry) = sym }
    IN ld.modules_to_patch[CHOOSE i \in defs : \A j \in defs : j <= i]

(* The files whose module was placed, with their extern call sites *)
PlacedSites ==
    UNION { { << module_key(ld.srcs[i]), x[1], x[2] >> : x \in extern_sites(ld.srcs[i]) } :
              i \in { k \in 1 .. Len(ld.srcs) :
                        /\ module_key(ld.srcs[k]) \in Placed
                        /\ alone(ld.srcs[k]).err.type = "none" } }

(* C10 (as amended): for every extern call site `JSR @a` of a placed       *)
(* module in a successful build, the operand word in the final image is    *)
(* the base of the module placed last among those whose name or whose      *)
(* lower-cased entry label is `a`                                          *)
C10_ExternOperandIsLastDefinerBase ==
    Succeeded =>
      \A x \in PlacedSites :
          ld.data[x[1]].words[x[2] + 2] = ld.data[last_definer(x[3])].base

(* C10 witness: a successful build in which module c calls `@a`, module a  *)
(* is placed, and module b, placed after a, has the entry label `A`        *)
C10_Witness ==
    /\ Succeeded /\ {"a", "b", "c"} \subseteq Placed
    /\ << "c", 0, "a" >> \in PlacedSites
    /\ ld.data["b"].entry = "A"
    /\ ld.data["c"].words[2] = ld.data["b"].base

(* C10 as stated: the operand word equals the final base of module `a`,    *)
(* whatever other modules and entry labels are present                     *)
C10_ExternOperandIsModuleBase ==
    Succeeded =>
      \A x \in PlacedSites :
          x[3] \in Placed => ld.data[x[1]].words[x[2] + 2] = ld.data[x[3]].base

----------------------------------------------------------------------------
(* The Mini32 peephole pass (tools/mini32_compiler.py) applied to emitted  *)
(* lines, and the two programs run side by side on the machine             *)

(* The mnemonic of an instruction line with an operand, "" otherwise *)
op_of(line) ==
    IF line.kind = "ins" /\ Len(line.toks) >= 2 THEN mnemonic_of(line.toks[1]) ELSE ""

(* group(1) of r_sta / r_lda / r_lpa: the operand text *)
operand_text(line) == Tail(line.toks)

(* `-?\d+` *)
is_signed_int(tok) ==
    is_int(tok) \/ (tok # << >> /\ Head(tok) = "-" /\ is_int(Tail(tok)))

(* r_adi / r_sui / r_ldi: the mnemonic with one integer literal *)
matches_imm(line, m) ==
    op_of(line) = m /\ Len(line.toks) = 2 /\ is_signed_int(line.toks[2])

tmp_addr == << ".", "__tmp_addr" >>

(* _peephole_optimize(lines), from line i on *)
RECURSIVE peephole_from(_, _, _)
peephole_from(lines, i, optimized) ==
    IF i > Len(lines) THEN optimized
    ELSE LET line     == lines[i]
             has_next == i + 1 <= Len(lines)
             next     == lines[i + 1]
         IN
         IF line.kind # "ins"
           THEN peephole_from(lines, i + 1, Append(optimized, line))
         ELSE IF op_of(line) = "STA" /\ has_next /\ op_of(next) = "LDA"
                 /\ operand_text(next) = operand_text(line)
           THEN peephole_from(lines, i + 2, Append(optimized, line))
         ELSE IF op_of(line) = "STA" /\ operand_text(line) = << tmp_addr >>
                 /\ has_next /\ op_of(next) = "LPA"
                 /\ operand_text(next) = << tmp_addr >>
           THEN peephole_from(lines, i + 2, optimized \o << line, Ins0("LAP") >>)
         ELSE IF matches_imm(line, "LDI") /\ line.toks[2] = << "0" >>
                 /\ has_next /\ matches_imm(next, "ADI")
           THEN peephole_from(lines, i + 2,
                              Append(optimized, Ins1("LDI", next.toks[2])))
         ELSE IF matches_imm(line, "ADI") /\ line.toks[2] = << "0" >>
           THEN peephole_from(lines, i + 1, optimized)
         ELSE IF matches_imm(line, "SUI") /\ line.toks[2] = << "0" >>
           THEN peephole_from(lines, i + 1, optimized)
         ELSE peephole_from(lines, i + 1, Append(optimized, line))

(* The emitted lines returned as they are *)
peephole_skipped(lines) == lines

peephole_optimize(lines) == peephole_from(lines, 1, << >>)

(* Emitted line sequences: `x = a + n` / `x = a - n` written out, a store  *)
(* and reload, a branch on the flags of an inline `ADI 0`, and code the    *)
(* pass leaves alone                                                       *)
emit_imm(a, op, n) ==
    << Ins1("LDI", str_of(a)), Ins1(op, str_of(n)), Ins0("OUT"), Ins0("HLT") >>

emit_reload ==
    << Ins1("LDI", str_of(7)), Ins1("STA", str_of(200)), Ins1("LDA", str_of(200)),
       Ins0("OUT"), Ins0("HLT") >>

emit_branch ==
    << Ins1("LDI", str_of(0)), Ins1("ADI", str_of(0)), Ins1("JPZ", << "z" >>),
       Ins1("LDI", str_of(1)), Ins0("OUT"), Ins0("HLT"),
       Label("z"), Ins1("LDI", str_of(2)), Ins0("OUT"), Ins0("HLT") >>

emit_untouched ==
    << Ins1("LDI", str_of(1)), Ins1("ADI", str_of(2)), Ins1("STA", str_of(200)),
       Ins0("OUT"), Ins0("HLT") >>

Emitted ==
    { emit_imm(a, op, n) : a \in {0, 3}, op \in {"ADI", "SUI"}, n \in {0, 5} }
      \cup { emit_reload, emit_branch, emit_untouched }

InitPeep ==
    /\ \E lines \in Emitted :
         pp = [ lines |-> lines, optimized |-> << >>, stage |-> "emitted",
                plain |-> Computer(lines), opt |-> Computer(lines) ]
    /\ cpu = Idle /\ phase = Idle /\ alu = Idle /\ asm = Idle /\ ld = Idle /\ cc = Idle /\ lcd = Idle
    /\ ps = Idle

(* The pass runs and its output is loaded into the second machine *)
Optimize ==
    /\ pp.stage = "emitted"
    /\ pp' = [pp EXCEPT !.optimized = peephole_optimize(pp.lines),
                        !.opt = Computer(peephole_optimize(pp.lines)),
                        !.stage = "loaded"]
    /\ UNCHANGED <<cpu, phase, alu, asm, ld, cc, lcd, ps>>

(* One clock cycle on each machine that still runs *)
RunBoth ==
    /\ pp.stage = "loaded"
    /\ pp.plain.halting = 0 \/ pp.opt.halting = 0
    /\ pp.plain.error = "none" /\ pp.opt.error = "none"
    /\ pp' = [pp EXCEPT !.plain = step(pp.plain), !.opt = step(pp.opt)]
    /\ UNCHANGED <<cpu, phase, alu, asm, ld, cc, lcd, ps>>

NextPeep == Optimize \/ RunBoth

SpecPeep == InitPeep /\ [][NextPeep]_vars

(* The cells no emitted program keeps code in *)
DataCells == 128 .. (memory_size - 1)

(* The state a program leaves behind: A, B, FlagReg, Output, SP and data *)
Observable(c) ==
    << c.areg, c.breg, c.flagreg, c.out_regist, c.stackpointer,
       [a \in DataCells |-> c.memory[a]] >>

(* C5: when the program as emitted and the program after the peephole pass *)
(* have both run to their halt, they leave the same register state and the *)
(* same memory                                                             *)
C5_PeepholePreservesState ==
    (pp.stage = "loaded" /\ pp.plain.halting # 0 /\ pp.opt.halting # 0)
        => Observable(pp.plain) = Observable(pp.opt)

----------------------------------------------------------------------------
(* Claims about reset *)

(* Every register of the machine but the memory data register *)
RegistersButMDR(c) ==
    << c.bus, c.areg, c.breg, c.sumreg, c.flagreg, c.flags, c.inst_reg_a,
       c.inst_reg_b, c.out_regist, c.prog_count, c.input_regi, c.stackpointer,
       c.carry, c.zero, c.timer_indicator, c.clockcycles_ran, c.screen_data,
       c.screen_control, c.memaddress >>

AllZero(t) == \A i \in 1 .. Len(t) : t[i] = 0

(* C13, as amended: reset, called in any state including Halted, zeroes   *)
(* every register except the memory data register, which it loads with    *)
(* memory[0], leaves every memory cell as it is, and leaves the machine   *)
(* Running at timestep 0 with an empty control word                       *)
C13_ResetZeroesRegistersKeepsMemory ==
    [][Reset => /\ AllZero(RegistersButMDR(cpu'))
                /\ cpu'.memcontent = cpu.memory[0]
                /\ cpu'.memory = cpu.memory
                /\ cpu'.halting = 0 /\ cpu'.op_timestep = 0
                /\ cpu'.controlword = {}]_vars

(* reset has just been called on a Halted machine whose stack pointer,    *)
(* A register and output were not 0 and whose memory holds a program      *)
C13_Witness ==
    /\ phase.reset_from = "Halted"
    /\ cpu.memory[0] # 0
    /\ cpu.halting = 0 /\ cpu.areg = 0

(* C13: reset, called in any state including Halted, zeroes every         *)
(* register and every memory cell and leaves the machine Running at       *)
(* timestep 0                                                              *)
C13_ResetZeroesAll ==
    phase.reset_from # "none" =>
        /\ AllZero(RegistersButMDR(cpu)) /\ cpu.memcontent = 0
        /\ \A a \in DOMAIN cpu.memory : cpu.memory[a] = 0
        /\ cpu.halting = 0 /\ cpu.op_timestep = 0

----------------------------------------------------------------------------
(* Claims about the order of the writes of clock_high *)

(* The host is about to call clock_high on a running machine *)
AboutToClockHigh ==
    /\ phase.clock = "low" /\ phase.updated
    /\ cpu.error = "none" /\ cpu.halting = 0

(* The asserted bits of the control word that write on the clock edge *)
AssertedWrites(c) ==
    { b \in c.controlword : \E i \in 1 .. Len(high_order) : high_order[i] = b }

(* Every order of the bits of S *)
Orders(S) ==
    { o \in [1 .. Cardinality(S) -> S] :
        \A i, j \in 1 .. Cardinality(S) : i # j => o[i] # o[j] }

(* clock_high with the writes of its control word applied in `order` *)
clock_high_in(c, order) ==
    apply_writes([c EXCEPT !.timer_indicator = 1,
                           !.clockcycles_ran = c.clockcycles_ran + 1,
                           !.halting = IF "HLT" \in c.controlword THEN 1 ELSE 0],
                 c.controlword, order)

(* CE is applied before every jump bit of the order *)
CountsBeforeJumps(order) ==
    \A i, j \in 1 .. Len(order) :
        (order[i] = "CE" /\ order[j] \in {"JMP", "JC", "JZ"}) => i < j

(* C14, as amended: for every control word of the microcode table, the    *)
(* post-state of a clock_high call that returns does not depend on the    *)
(* order in which the writes of the asserted control bits are applied, as *)
(* long as CE is applied before JMP, JC and JZ                            *)
C14_OrderIrrelevantButCEBeforeJump ==
    (AboutToClockHigh /\ clock_high(cpu).error = "none") =>
        \A o \in Orders(AssertedWrites(cpu)) :
            CountsBeforeJumps(o) => clock_high_in(cpu, o) = clock_high(cpu)

(* clock_high is about to apply the control word CO|RI|INS of JSR, and    *)
(* the control word RO|JC|CE|ORE of a JPC that is taken                   *)
C14_Witness ==
    /\ AboutToClockHigh
    /\ \/ {"RI", "INS"} \subseteq cpu.controlword
       \/ {"JC", "CE"} \subseteq cpu.controlword /\ cpu.flagreg \in {2, 3}

(* C14: for every control word that occurs in the microcode table, the    *)
(* post-state of clock_high does not depend on the order in which the     *)
(* asserted control bits' writes are applied                              *)
C14_OrderIrrelevant ==
    (AboutToClockHigh /\ clock_high(cpu).error = "none") =>
        \A o \in Orders(AssertedWrites(cpu)) :
            clock_high_in(cpu, o) = clock_high(cpu)

----------------------------------------------------------------------------
(* Claims about single instructions *)

(* The machine is about to fetch the instruction at PC *)
AtFetch ==
    /\ phase.clock = "low"
    /\ cpu.error = "none" /\ cpu.halting = 0 /\ cpu.op_timestep = 0
    /\ cpu.prog_count \in 0 .. (memory_size - 2)

(* The machine stepped to the end of the instruction it is about to fetch: *)
(* to timestep 0, to a halt or to a raised error; an instruction has at    *)
(* most 8 timesteps                                                        *)
RECURSIVE stepped(_, _)
stepped(c, n) ==
    LET d == step(c)
    IN IF n = 1 \/ d.error # "none" \/ d.halting # 0 \/ d.op_timestep = 0
       THEN d ELSE stepped(d, n - 1)

instruction_end(c) == stepped(c, 8)

(* The flag condition of a jump opcode on the latched flag register *)
jump_condition(opcode, flagreg) ==
    CASE opcode = build_instruction_map.JMP -> TRUE
      [] opcode = build_instruction_map.JPC -> (flagreg \div 2) % 2 = 1
      [] opcode = build_instruction_map.JPZ -> flagreg % 2 = 1
      [] opcode = build_instruction_map.JNZ -> flagreg % 2 = 0

(* C15: a jump instruction (JMP, JPC, JPZ, JNZ) at address a with operand *)
(* t leaves PC = t when its flag condition holds on the latched FlagReg,   *)
(* and PC = a + 2 otherwise                                                *)
C15_JumpLoadsPCIfCondition ==
    LET a == cpu.prog_count IN
    (/\ AtFetch
     /\ cpu.memory[a] \in { build_instruction_map[m] : m \in {"JMP", "JPC", "JPZ", "JNZ"} })
    => instruction_end(cpu).prog_count =
         IF jump_condition(cpu.memory[a], cpu.flagreg) THEN cpu.memory[a + 1] ELSE a + 2

NotFetched(c) ==
    << c.memory, c.areg, c.breg, c.inst_reg_b, c.out_regist, c.stackpointer,
       c.flagreg, c.screen_data, c.screen_control >>

(* C17: executing an opcode that has no defined instruction is non-fatal: *)
(* after the two-step fetch it runs an empty microbody that changes no     *)
(* register or memory cell beyond what the fetch wrote, and the CPU is     *)
(* back at timestep 0, neither halted nor raising                          *)
C17_UndefinedOpcodeNonFatal ==
    LET a == cpu.prog_count
        d == instruction_end(cpu)
    IN (AtFetch /\ cpu.memory[a] \notin defined_opcodes) =>
          /\ d.error = "none" /\ d.halting = 0 /\ d.op_timestep = 0
          /\ d.prog_count = a + 1 /\ d.inst_reg_a = cpu.memory[a]
          /\ NotFetched(d) = NotFetched(cpu)

----------------------------------------------------------------------------
(* Claims about the stack *)

(* The cells of the stack *)
StackCells == stackpointer_start .. (stackpointer_start + 2 ^ bits_stackpointer - 1)

----------------------------------------------------------------------------
(* Claims about the operands the assembler writes *)

(* The operand text of the assembled instruction line *)
OperandText == join(asm.operands)

(* The addresses of the first words of the instructions of a program *)
RECURSIVE first_words(_, _)
first_words(program, address) ==
    IF program = << >> THEN {}
    ELSE {address} \cup first_words(Tail(program), address + Len(Head(program).tokens))

RECURSIVE code_length(_)
code_length(program) ==
    IF program = << >> THEN 0
    ELSE Len(Head(program).tokens) + code_length(Tail(program))

(* The line was accepted and is a jump with an operand *)
AssembledJump(out, map) ==
    /\ asm.done /\ out.err = "none" /\ asm.operands # << >>
    /\ map[asm.mnemonic] \in {map.JMP, map.JPC, map.JPZ, map.JSR, build_instruction_map.JNZ}

(* C19 as amended: the operand word of a jump whose operand names a label *)
(* is the code address the label was declared at, which is the first word *)
(* of the instruction that follows the label or, for a label after the    *)
(* last instruction, the first address past the code; an operand `#N` is  *)
(* written as N                                                           *)
C19_LabelOperandIsInstructionStartOrEnd ==
    AssembledJump(asm.out, build_instruction_map) =>
        IF Head(OperandText) = "#"
        THEN read(asm.out.mem, 1) = int_of(Tail(OperandText))
        ELSE /\ read(asm.out.mem, 1)
                  \in first_words(asm.out.program, 0) \cup {code_length(asm.out.program)}
             /\ OperandText = << "L" >> => read(asm.out.mem, 1) = 2
             /\ OperandText = << "E" >> => read(asm.out.mem, 1) = 3

(* `JMP L` was assembled: its operand word is the address of the HLT that *)
(* follows the label                                                      *)
C19_Witness ==
    /\ AssembledJump(asm.out, build_instruction_map)
    /\ asm.mnemonic = "JMP" /\ OperandText = << "L" >>
    /\ read(asm.out.mem, 1) = 2 /\ read(asm.out.mem, 2) = build_instruction_map.HLT

(* C19: after assembly of any accepted source every jump operand in       *)
(* memory is the address of the first word of an instruction              *)
C19_JumpOperandIsInstructionStart ==
    AssembledJump(asm.out, build_instruction_map) =>
        read(asm.out.mem, 1) \in first_words(asm.out.program, 0)

(* The terms of an operand expression *)
Terms(tok) ==
    UNION { { t[i] : i \in 1 .. Len(t) } :
            t \in { split(p[j], "-") : p \in {split(tok, "+")}, j \in 1 .. Len(split(tok, "+")) } }

(* The operand of a non-jump line names a pointer variable that no line   *)
(* of the source defines                                                  *)
UnresolvedDataOperand ==
    /\ asm.done /\ Len(asm.operands) = 1
    /\ ~ is_jump(build_instruction_map[asm.mnemonic], TRUE)
    /\ \E t \in Terms(OperandText) :
         t # << >> /\ Head(t) = "." /\ Tail(t) \notin {<< "x" >>}

(* C20: an unresolved pointer variable in a data operand is never fatal:  *)
(* the variable counts as 0 and the assembly runs to completion, in the   *)
(* module assembler and in the assembler of the machine                   *)
C20_UnresolvedPointerNotFatal ==
    UnresolvedDataOperand =>
        /\ asm.out.err = "none"
        /\ read(asm.out.mem, 1) = eval_expr_core(OperandText, put(asm.out.variables, << "y" >>, 0))
        /\ read(asm.out.mem, 2) = build_instruction_map.HLT
        /\ asm.out_cpu.err = "none"
        /\ read(asm.out_cpu.mem, 1) = read(asm.out.mem, 1)

----------------------------------------------------------------------------
(* The Mini32 compiler: tools/mini32_compiler.py                           *)
(*                                                                         *)
(* A source text is a sequence of atoms: a name, a digit, "+", "-", " ".   *)
(* A statement is a record [kind, ...] as the parser builds it; the texts  *)
(* of its expressions are parsed by parse_expression.                      *)

RECURSIVE lstrip(_)
lstrip(t) == IF t # << >> /\ Head(t) = " " THEN lstrip(Tail(t)) ELSE t

RECURSIVE rstrip(_)
rstrip(t) ==
    IF t # << >> /\ t[Len(t)] = " " THEN rstrip(SubSeq(t, 1, Len(t) - 1)) ELSE t

(* text.strip() *)
strip(t) == rstrip(lstrip(t))

(* Symbol.size of the variables of the sources: `var arr[3]`, and 1 for   *)
(* every other variable                                                    *)
symbol_size(name) == IF name = "arr" THEN 3 ELSE 1

(* _parse_term(text): a literal number, the name of a variable, or         *)
(* `name[index]` with the raw index text as offset (<< >> for None)        *)
parse_term(text) ==
    IF is_int(text)
    THEN [kind |-> "literal", value |-> int_of(text), name |-> "", offset |-> << >>]
    ELSE IF Len(text) >= 4 /\ text[2] = "[" /\ text[Len(text)] = "]"
    THEN [kind |-> "symbol", value |-> 0, name |-> text[1],
          offset |-> strip(SubSeq(text, 3, Len(text) - 1))]
    ELSE [kind |-> "symbol", value |-> 0, name |-> text[1], offset |-> << >>]

(* The terms with the pending term_str added when it is not empty *)
with_term(terms, current, sign) ==
    IF strip(current) # << >>
    THEN Append(terms, [sign |-> sign, term |-> parse_term(strip(current))])
    ELSE terms

(* _parse_expression(text): the loop over the characters from idx on *)
RECURSIVE parse_expression_from(_, _, _, _, _)
parse_expression_from(text, idx, terms, current, sign) ==
    IF idx > Len(text) THEN with_term(terms, current, sign)
    ELSE IF text[idx] \in {"+", "-"}
      THEN parse_expression_from(text, idx + 1,
               IF current = << >> THEN terms ELSE with_term(terms, current, sign),
               << >>, IF text[idx] = "+" THEN 1 ELSE -1)
    ELSE parse_expression_from(text, idx + 1, terms, Append(current, text[idx]), sign)

parse_expression(text) == parse_expression_from(text, 1, << >>, << >>, 1)

(* _parse_if / _parse_while: the condition `left == right` or             *)
(* `left != right` becomes the expression f"{left} - {right}"; `==` sets  *)
(* the invert flag                                                         *)
condition_of(cond) ==
    [ expr |-> parse_expression(cond.left \o << " ", "-", " " >> \o cond.right),
      invert |-> cond.op = "==" ]

(* Term.address_expr() / TargetRef.address_expr(): `.name`, or            *)
(* `.name + offset` when there is an offset other than "0"                 *)
address_expr(t) ==
    IF t.offset # << >> /\ t.offset # << "0" >>
    THEN << ".", t.name, "+" >> \o t.offset
    ELSE << ".", t.name >>

(* The scratch variables of the code generator *)
tmp_addr_ref == << ".", "__tmp_addr" >>
tmp_base_ref == << ".", "__tmp_base" >>

(* _emit_compute_simple_expression, one term: a literal, or a symbol that  *)
(* _resolve_symbol_token maps to `.token`                                  *)
emit_compute_simple_term(term, first) ==
    IF term.term.kind = "literal"
    THEN IF first THEN << Ins1("LDI", str_int(term.sign * term.term.value)) >>
         ELSE IF term.sign = 1 THEN << Ins1("ADI", str_of(term.term.value)) >>
         ELSE << Ins1("SUI", str_of(term.term.value)) >>
    ELSE IF first
         THEN IF term.sign = 1 THEN << Ins1("LDA", << ".", term.term.name >>) >>
              ELSE << Ins1("LDI", str_of(0)), Ins1("SUB", << ".", term.term.name >>) >>
         ELSE IF term.sign = 1 THEN << Ins1("ADD", << ".", term.term.name >>) >>
              ELSE << Ins1("SUB", << ".", term.term.name >>) >>

RECURSIVE emit_compute_simple_terms(_, _)
emit_compute_simple_terms(terms, first) ==
    IF terms = << >> THEN << >>
    ELSE emit_compute_simple_term(Head(terms), first)
           \o emit_compute_simple_terms(Tail(terms), FALSE)

(* _emit_compute_simple_expression(text): a `+`/`-` expression of literals *)
(* and variables without brackets, left in A                               *)
emit_compute_simple_expression(text) ==
    emit_compute_simple_terms(parse_expression(text), TRUE)

(* _emit_indexed_symbol_term: `symbol[offset]` of an array (size > 1) or   *)
(* through a pointer (size 1); a line `Mini32Error` stands for the error   *)
(* raised for an indexed term that is not the first of its expression      *)
emit_indexed_symbol_term(expr_term, first_term) ==
    LET t          == expr_term.term
        static     == is_int(t.offset)
        static_int == IF static THEN int_of(t.offset) ELSE 0
        base_expr  == IF static_int # 0 THEN << ".", t.name, "+" >> \o str_of(static_int)
                      ELSE << ".", t.name >>
        negate     == IF expr_term.sign = -1
                      THEN << Ins1("STA", tmp_base_ref), Ins1("LDI", str_of(0)),
                              Ins1("SUB", tmp_base_ref) >>
                      ELSE << >>
        tail       == << Ins1("LPA", tmp_addr_ref) >> \o negate
                        \o (IF first_term THEN << >> ELSE << Ins0("Mini32Error") >>)
    IN IF symbol_size(t.name) > 1 /\ static
       THEN (IF first_term
             THEN IF expr_term.sign = 1 THEN << Ins1("LDA", base_expr) >>
                  ELSE << Ins1("LDI", str_of(0)), Ins1("SUB", base_expr) >>
             ELSE IF expr_term.sign = 1 THEN << Ins1("ADD", base_expr) >>
                  ELSE << Ins1("SUB", base_expr) >>)
       ELSE IF symbol_size(t.name) > 1
       THEN emit_compute_simple_expression(t.offset)
              \o << Ins1("ADD", << ".", t.name >>), Ins1("STA", tmp_addr_ref) >> \o tail
       ELSE << Ins1("LDA", << ".", t.name >>), Ins1("STA", tmp_base_ref) >>
              \o (IF static /\ static_int = 0 THEN << >>
                  ELSE IF static THEN << Ins1("ADI", str_of(static_int)) >>
                  ELSE emit_compute_simple_expression(t.offset)
                         \o << Ins1("ADD", tmp_base_ref) >>)
              \o << Ins1("STA", tmp_addr_ref) >> \o tail

(* CodeGenerator._emit(line) with one operand *)
emit_first_term(term) ==
    IF term.term.kind = "literal"
    THEN << Ins1("LDI", str_int(term.sign * term.term.value)) >>
    ELSE IF term.term.offset # << >> THEN emit_indexed_symbol_term(term, TRUE)
    ELSE IF term.sign = 1 THEN << Ins1("LDA", address_expr(term.term)) >>
    ELSE << Ins1("LDI", str_of(0)), Ins1("SUB", address_expr(term.term)) >>

emit_followup_term(term) ==
    IF term.term.kind = "literal"
    THEN IF term.sign * term.term.value >= 0
         THEN << Ins1("ADI", str_of(term.sign * term.term.value)) >>
         ELSE << Ins1("SUI", str_of(0 - term.sign * term.term.value)) >>
    ELSE IF term.term.offset # << >> THEN emit_indexed_symbol_term(term, FALSE)
    ELSE IF term.sign = 1 THEN << Ins1("ADD", address_expr(term.term)) >>
    ELSE << Ins1("SUB", address_expr(term.term)) >>

RECURSIVE emit_followup_terms(_)
emit_followup_terms(terms) ==
    IF terms = << >> THEN << >>
    ELSE emit_followup_term(Head(terms)) \o emit_followup_terms(Tail(terms))

(* _emit_expression(expr): the lines that leave the value of expr in A *)
emit_expression(expr) == emit_first_term(Head(expr)) \o emit_followup_terms(Tail(expr))

(* A label line and an instruction line whose operand is a label *)
LabelLine(tok) == [kind |-> "label", name |-> tok]

(* func_name.upper() for the function names of the sources *)
upper(name) == CASE name = "main" -> "MAIN" [] name = "f" -> "F" [] OTHER -> name

(* _next_label(func_name, hint) with label_counter already incremented *)
next_label(func_name, hint, label_counter) ==
    << upper(func_name), "__", hint, "_" >> \o str_of(label_counter)

(* Expression.negated(): the sign of every term flipped *)
negated(expr) == [i \in 1 .. Len(expr) |-> [expr[i] EXCEPT !.sign = 0 - @]]

(* _emit_let of `let target = expr`, `let target += expr` or               *)
(* `let target -= expr` with a plain variable as target                    *)
emit_let_static(stmt, addr_expr, expr, op) ==
    (CASE op = "="  -> emit_expression(expr)
       [] op = "+=" -> << Ins1("LDA", addr_expr) >> \o emit_followup_terms(expr)
       [] op = "-=" -> << Ins1("LDA", addr_expr) >> \o emit_followup_terms(negated(expr)))
    \o << Ins1("STA", addr_expr) >>

(* _emit_indexed_store_address_setup: addr_expr split at its first `+`     *)
(* into base and offset; the offset computed into A, `ADD base`, the sum   *)
(* stored in .__tmp_addr                                                   *)
emit_indexed_store_address_setup(base_part, offset_part) ==
    emit_compute_simple_expression(offset_part)
      \o << Ins1("ADD", base_part), Ins1("STA", tmp_addr_ref) >>

(* The store of A through .__tmp_addr: the value saved, the address pushed *)
emit_store_through_tmp_addr ==
    << Ins1("LDA", tmp_addr_ref), Ins0("PHA"), Ins1("LDA", tmp_base_ref), Ins0("SAS") >>

(* _emit_let with a `+` in the address expression of the target *)
emit_let_dynamic(stmt, offset, expr, op) ==
    LET setup == emit_indexed_store_address_setup(<< ".", stmt.target >>, offset) IN
    IF op = "="
    THEN emit_expression(expr) \o << Ins1("STA", tmp_base_ref) >> \o setup
           \o emit_store_through_tmp_addr
    ELSE setup \o << Ins1("LPA", tmp_addr_ref) >>
           \o emit_followup_terms(IF op = "+=" THEN expr ELSE negated(expr))
           \o << Ins1("STA", tmp_base_ref) >> \o emit_store_through_tmp_addr

emit_let(stmt) ==
    LET offset    == IF "index" \in DOMAIN stmt THEN stmt.index ELSE << >>
        addr_expr == address_expr([name |-> stmt.target, offset |-> offset])
        expr      == parse_expression(stmt.expr)
        op        == IF "op" \in DOMAIN stmt THEN stmt.op ELSE "="
        dynamic_index == \E i \in 1 .. Len(addr_expr) : addr_expr[i] = "+"
    IN IF dynamic_index THEN emit_let_dynamic(stmt, offset, expr, op)
       ELSE emit_let_static(stmt, addr_expr, expr, op)

(* _emit_asm of a payload of one instruction line *)
emit_asm(stmt) ==
    IF "operand" \in DOMAIN stmt THEN << Ins1(stmt.payload, stmt.operand) >>
    ELSE << Ins0(stmt.payload) >>

(* The pops of _emit_call for several returned values *)
RECURSIVE emit_pops(_)
emit_pops(returns) ==
    IF returns = << >> THEN << >>
    ELSE (IF Head(returns) = "_" THEN << Ins0("PLA") >>
          ELSE << Ins0("PLA"), Ins1("STA", << ".", Head(returns) >>) >>)
         \o emit_pops(Tail(returns))

(* The pushes of the arguments of _emit_call *)
RECURSIVE emit_args(_)
emit_args(args) ==
    IF args = << >> THEN << >>
    ELSE emit_expression(parse_expression(Head(args))) \o << Ins0("PHA") >>
         \o emit_args(Tail(args))

(* _emit_call(stmt) *)
emit_call(stmt) ==
    emit_args(stmt.args) \o << Ins1("JSR", << stmt.callee >>) >>
      \o (IF Len(stmt.returns) > 1 THEN emit_pops(stmt.returns)
          ELSE IF Len(stmt.returns) = 1 /\ stmt.returns[1] # "_"
            THEN << Ins1("STA", << ".", stmt.returns[1] >>) >>
          ELSE << >>)

(* The pushes of _emit_return, for exprs[::-1] from index i down *)
RECURSIVE emit_pushes(_, _)
emit_pushes(exprs, i) ==
    IF i = 0 THEN << >>
    ELSE emit_expression(parse_expression(exprs[i])) \o << Ins0("PHA") >>
         \o emit_pushes(exprs, i - 1)

(* _emit_return(stmt) *)
emit_return(stmt) ==
    IF stmt.exprs = << >> THEN << Ins0("RET") >>
    ELSE IF Len(stmt.exprs) = 1
      THEN emit_expression(parse_expression(stmt.exprs[1])) \o << Ins0("RET") >>
    ELSE << Ins0("PLA"), Ins0("MOVAB") >> \o emit_pushes(stmt.exprs, Len(stmt.exprs))
         \o << Ins0("MOVBA"), Ins0("PHA"), Ins0("RET") >>

(* The test both _emit_if and _emit_while emit: the condition value,      *)
(* `CPI 0`, and the jump past the body                                     *)
emit_test(condition, label) ==
    emit_expression(condition.expr)
      \o << Ins1("CPI", str_of(0)),
            Ins1(IF ~ condition.invert THEN "JPZ" ELSE "JNZ", label) >>

RECURSIVE emit_statements(_, _, _)

(* _emit_if(func_name, stmt); gen is [lines, label_counter] *)
emit_if(gen, func_name, stmt) ==
    LET has_else   == stmt.else_body # << >>
        n_end      == gen.label_counter + 1
        n_else     == IF has_else THEN n_end + 1 ELSE n_end
        end_label  == next_label(func_name, "ENDIF", n_end)
        else_label == IF has_else THEN next_label(func_name, "ELSE", n_else)
                      ELSE end_label
        g_then     == emit_statements(
                        [lines |-> gen.lines \o emit_test(condition_of(stmt.condition), else_label),
                         label_counter |-> n_else],
                        func_name, stmt.then_body)
    IN IF has_else
       THEN LET g_else == emit_statements(
                            [g_then EXCEPT !.lines = g_then.lines
                               \o << Ins1("JMP", end_label), LabelLine(else_label) >>],
                            func_name, stmt.else_body)
            IN [g_else EXCEPT !.lines = g_else.lines \o << LabelLine(end_label) >>]
       ELSE [g_then EXCEPT !.lines = g_then.lines \o << LabelLine(else_label) >>]

(* _emit_while(func_name, stmt) *)
emit_while(gen, func_name, stmt) ==
    LET start_label == next_label(func_name, "WHILE_START", gen.label_counter + 1)
        end_label   == next_label(func_name, "WHILE_END", gen.label_counter + 2)
        g_body      == emit_statements(
                         [lines |-> gen.lines \o << LabelLine(start_label) >>
                                      \o emit_test(condition_of(stmt.condition), end_label),
                          label_counter |-> gen.label_counter + 2],
                         func_name, stmt.body)
    IN [g_body EXCEPT !.lines = g_body.lines
                        \o << Ins1("JMP", start_label), LabelLine(end_label) >>]

(* _emit_statements(func_name, statements) *)
emit_statements(gen, func_name, statements) ==
    IF statements = << >> THEN gen
    ELSE LET stmt == Head(statements)
             g    == CASE stmt.kind = "if"    -> emit_if(gen, func_name, stmt)
                       [] stmt.kind = "while" -> emit_while(gen, func_name, stmt)
                       [] stmt.kind = "let"   ->
                            [gen EXCEPT !.lines = gen.lines \o emit_let(stmt)]
                       [] stmt.kind = "call"  ->
                            [gen EXCEPT !.lines = gen.lines \o emit_call(stmt)]
                       [] stmt.kind = "return" ->
                            [gen EXCEPT !.lines = gen.lines \o emit_return(stmt)]
                       [] stmt.kind = "asm"   ->
                            [gen EXCEPT !.lines = gen.lines \o emit_asm(stmt)]
         IN emit_statements(g, func_name, Tail(statements))

(* The pops of _emit_function_prologue, for args[::-1] from index i down *)
RECURSIVE emit_arg_pops(_, _)
emit_arg_pops(args, i) ==
    IF i = 0 THEN << >>
    ELSE << Ins0("PLA"), Ins1("STA", << ".", args[i] >>) >> \o emit_arg_pops(args, i - 1)

(* _emit_function_prologue(args) *)
emit_function_prologue(args) ==
    IF args = << >> THEN << >>
    ELSE << Ins0("PLA"), Ins0("MOVAB") >> \o emit_arg_pops(args, Len(args))
         \o << Ins0("MOVBA"), Ins0("PHA") >>

(* _ensure_function_ret(): a RET unless the last line is one *)
ensure_function_ret(lines) ==
    IF lines # << >> /\ lines[Len(lines)] = Ins0("RET") THEN lines
    ELSE Append(lines, Ins0("RET"))

(* _emit_globals(): `name = .bss` or `name = .bss + offset`, the scratch  *)
(* variables of CodeGenerator.__init__ after the variables of the source  *)
RECURSIVE var_offset(_, _)
var_offset(names, i) ==
    IF i = 1 THEN 0 ELSE var_offset(names, i - 1) + symbol_size(names[i - 1])

emit_globals(var_names) ==
    LET all == var_names \o << "__tmp_addr", "__tmp_base" >> IN
    [ i \in 1 .. Len(all) |->
        [ kind |-> "ptr", name |-> << all[i] >>,
          rhs |-> IF var_offset(all, i) = 0 THEN << ".", "bss" >>
                  ELSE << ".", "bss", "+" >> \o str_of(var_offset(all, i)) ] ]

(* The loop of generate() over the functions *)
RECURSIVE emit_functions(_, _)
emit_functions(gen, functions) ==
    IF functions = << >> THEN gen
    ELSE LET func == Head(functions)
             g    == emit_statements(
                       [gen EXCEPT !.lines = gen.lines \o << LabelLine(<< func.name >>) >>
                                               \o emit_function_prologue(func.args)],
                       func.name, func.body)
         IN emit_functions([g EXCEPT !.lines = ensure_function_ret(g.lines)],
                           Tail(functions))

(* CodeGenerator.generate() of a program without meta lines that has a    *)
(* function main: the globals, `JMP main`, the functions, the peephole    *)
(* pass                                                                    *)
emit_program(program) ==
    emit_functions([lines |-> emit_globals(program.vars) \o << Ins1("JMP", << "main" >>) >>,
                    label_counter |-> 0],
                   program.functions).lines

generate(program) == peephole_optimize(emit_program(program))

(* The lines the module assembler is given: `bss = N` of the loader, then *)
(* the lines of the compiler                                               *)
module_lines(lines, bss_base) == << Ptr("bss", bss_base) >> \o lines

(* Game_32.init_game: the machine is built, then the words of the image   *)
(* are written into its memory, each `int(w) & mask`                       *)
load_image(c, out) ==
    [c EXCEPT !.memory = [i \in 0 .. (memory_size - 1) |-> read(out.mem, i) % overflow_limit]]

----------------------------------------------------------------------------
(* Compiled programs on the machine *)

Let(target, text) == [kind |-> "let", target |-> target, expr |-> text]
LetOp(target, op, text) == [kind |-> "let", target |-> target, op |-> op, expr |-> text]
LetAt(target, index, text) == [kind |-> "let", target |-> target, index |-> index, expr |-> text]
Asm(payload)      == [kind |-> "asm", payload |-> payload]
Asm1(payload, tok) == [kind |-> "asm", payload |-> payload, operand |-> tok]

(* The right sides of the conditions: `b`, `b + c`, `b - c` *)
RightSides ==
    { << "b" >>, << "b", " ", "+", " ", "c" >>, << "b", " ", "-", " ", "c" >> }

(* The statement under test: `if`, `if` with `else`, `while` *)
cond_statement(kind, cond) ==
    CASE kind = "if" ->
           [kind |-> "if", condition |-> cond,
            then_body |-> << Let("r", << "1" >>) >>, else_body |-> << >>]
      [] kind = "ifelse" ->
           [kind |-> "if", condition |-> cond,
            then_body |-> << Let("r", << "1" >>) >>,
            else_body |-> << Let("r", << "2" >>) >>]
      [] kind = "while" ->
           [kind |-> "while", condition |-> cond,
            body |-> << Let("a", << "a", " ", "+", " ", "1" >>) >>]

(* var a, b, c, r; main sets a, b and c, runs the statement and halts *)
cond_program(src) ==
    [ vars |-> << "a", "b", "c", "r" >>,
      functions |-> <<
        [ name |-> "main", args |-> << >>,
          body |-> << Let("a", str_of(src.a)), Let("b", str_of(src.b)),
                      Let("c", str_of(src.c)),
                      cond_statement(src.kind,
                          [left |-> << "a" >>, op |-> src.op, right |-> src.right]),
                      Asm("HLT") >> ] >> ]

(* The return expressions: `1`, `a`, `a + 2` *)
ReturnExprs == { << "1" >>, << "a" >>, << "a", " ", "+", " ", "2" >> }

(* The destinations of the call, by number of returned values *)
destinations(k) == SubSeq(<< "x", "y", "z", "w" >>, 1, k)

(* var a, x, y, z, w; main sets a, calls f into the destinations and halts;  *)
(* f returns the expressions                                               *)
return_program(src) ==
    [ vars |-> << "a", "x", "y", "z", "w" >>,
      functions |-> <<
        [ name |-> "main", args |-> << >>,
          body |-> << Let("a", str_of(src.a)),
                      [kind |-> "call", callee |-> "f", args |-> << >>,
                       returns |-> destinations(Len(src.exprs))],
                      Asm("HLT") >> ],
        [ name |-> "f", args |-> << >>,
          body |-> << [kind |-> "return", exprs |-> src.exprs] >> ] >> ]

(* The parameters of f, by number of arguments, under the internal names  *)
(* `f.x`, `f.y` the parser gives them                                      *)
parameters(k) == SubSeq(<< "f.x", "f.y", "f.z" >>, 1, k)

(* var a; main sets a, calls f with the argument expressions and halts;    *)
(* f has one parameter for each argument and returns at once               *)
call_program(src) ==
    [ vars |-> << "a" >> \o parameters(Len(src.exprs)),
      functions |-> <<
        [ name |-> "main", args |-> << >>,
          body |-> << Let("a", str_of(src.a)),
                      [kind |-> "call", callee |-> "f", args |-> src.exprs,
                       returns |-> << >>],
                      Asm("HLT") >> ],
        [ name |-> "f", args |-> parameters(Len(src.exprs)),
          body |-> << [kind |-> "return", exprs |-> << >>] >> ] >> ]

(* The asm lines put between a store and a reload: `ADI 0`, `SUI 0`,      *)
(* `LDA .x`, `ADI 5`, `NOP`                                                *)
AsmLines ==
    { Asm1("ADI", << "0" >>), Asm1("SUI", << "0" >>), Asm1("LDA", << ".", "x" >>),
      Asm1("ADI", << "5" >>), Asm("NOP") }

(* var x, y; main sets x, has the asm line, copies x to y and halts *)
asm_program(src) ==
    [ vars |-> << "x", "y" >>,
      functions |-> <<
        [ name |-> "main", args |-> << >>,
          body |-> << Let("x", str_of(src.a)), src.right, Let("y", << "x" >>),
                      Asm("HLT") >> ] >> ]

(* The right sides of the let under test: sums and differences of         *)
(* variables and literals, with a leading sign, a literal wider than the   *)
(* word, the literal 0 and a negative literal after `+` and after `-`      *)
LetExprs ==
    { << "a", " ", "+", " ", "b" >>, << "a", " ", "-", " ", "b" >>,
      << "-", "a", " ", "+", " ", "5" >>, << "0", " ", "+", " ", "5" >>,
      << "a", " ", "-", " ", "0" >>, << "3", "0", "0" >>,
      << "a", " ", "+", " ", "3", "0", "0" >>, << "-", "5" >>,
      << "a", " ", "+", " ", "-", "5" >>, << "a", " ", "-", " ", "-", "5" >> }

(* var a, b, r; main sets a, b and r, runs the let under test and halts *)
let_program(src) ==
    [ vars |-> << "a", "b", "r" >>,
      functions |-> <<
        [ name |-> "main", args |-> << >>,
          body |-> << Let("a", str_of(src.a)), Let("b", str_of(src.b)),
                      Let("r", str_of(src.c)), LetOp("r", src.op, src.exprs[1]),
                      Asm("HLT") >> ] >> ]

(* var arr[3], r; main sets arr[0] when c is not 0, stores a in arr[b],   *)
(* reads arr[b] into r and halts                                           *)
array_program(src) ==
    [ vars |-> << "arr", "r" >>,
      functions |-> <<
        [ name |-> "main", args |-> << >>,
          body |-> (IF src.c # 0 THEN << LetAt("arr", << "0" >>, str_of(src.c)) >>
                    ELSE << >>)
                   \o << LetAt("arr", str_of(src.b), str_of(src.a)),
                         Let("r", << "arr", "[" >> \o str_of(src.b) \o << "]" >>),
                         Asm("HLT") >> ] >> ]

source_program(src) ==
    CASE src.family = "cond" -> cond_program(src)
      [] src.family = "array" -> array_program(src)
      [] src.family = "let" -> let_program(src)
      [] src.family = "asm" -> asm_program(src)
      [] src.family = "ret" -> return_program(src)
      [] src.family = "call" -> call_program(src)

(* Number of values a function of the sources returns, at most *)
MaxReturns == 3

(* Number of arguments a call of the sources passes, at most *)
MaxArgs == 2

(* Bound on the clock cycles a compiled program is run *)
MaxRunCycles == 140

CondSources ==
    { [family |-> "cond", kind |-> k, op |-> o, right |-> r, a |-> a, b |-> b,
       c |-> c, exprs |-> << >>] :
        k \in {"if", "ifelse", "while"}, o \in {"==", "!="}, r \in RightSides,
        a \in {1, 2}, b \in {1, 2}, c \in {0, 1} }

ReturnSources ==
    { [family |-> "ret", kind |-> "return", op |-> "", right |-> << >>, a |-> a,
       b |-> 0, c |-> 0, exprs |-> e] :
        a \in {3, 4},
        e \in UNION { [1 .. k -> ReturnExprs] : k \in 2 .. MaxReturns } }

CallSources ==
    { [family |-> "call", kind |-> "call", op |-> "", right |-> << >>, a |-> a,
       b |-> 0, c |-> 0, exprs |-> e] :
        a \in {3, 4},
        e \in UNION { [1 .. k -> ReturnExprs] : k \in 1 .. MaxArgs } }

AsmSources ==
    { [family |-> "asm", kind |-> "asm", op |-> "", right |-> line, a |-> a,
       b |-> 0, c |-> 0, exprs |-> << >>] :
        a \in {1, 2}, line \in AsmLines }

LetSources ==
    { [family |-> "let", kind |-> "let", op |-> o, right |-> << >>, a |-> a, b |-> 2,
       c |-> 1, exprs |-> << e >>] :
        o \in {"=", "+=", "-="}, e \in LetExprs, a \in {3, 255} }

ArraySources ==
    { [family |-> "array", kind |-> "let", op |-> "=", right |-> << >>, a |-> a,
       b |-> k, c |-> c, exprs |-> << >>] :
        a \in {7, 9}, k \in 0 .. (symbol_size("arr") - 1), c \in {0, 40, 130} }

InitComp ==
    /\ \E src \in CondSources \cup ReturnSources \cup CallSources \cup AsmSources
                  \cup LetSources \cup ArraySources :
         cc = [ src |-> src, stage |-> "source", lines |-> << >>, emitted |-> << >>,
                out |-> asm_start, m |-> Computer(<< >>) ]
    /\ cpu = Idle /\ phase = Idle /\ alu = Idle /\ asm = Idle /\ ld = Idle /\ pp = Idle /\ lcd = Idle
    /\ ps = Idle

(* The assembled image in the memory of the machine *)
loaded(c, lines, out) ==
    [c EXCEPT !.stage = "loaded", !.lines = lines, !.out = out,
              !.m = load_image(c.m, out)]

(* The words of the lines, assembled for a module whose bss starts at 128 *)
assembled(c, lines) ==
    loaded(c, lines, assemble_lines(module_lines(lines, 128), memory_size))

(* The source is compiled, assembled and loaded *)
Compile ==
    /\ cc.stage = "source"
    /\ cc' = [assembled(cc, generate(source_program(cc.src)))
                EXCEPT !.emitted = emit_program(source_program(cc.src))]
    /\ UNCHANGED <<cpu, phase, alu, asm, ld, pp, lcd, ps>>

(* One clock cycle of the machine that runs the image *)
Run ==
    /\ cc.stage = "loaded"
    /\ cc.out.err = "none" /\ cc.m.error = "none" /\ cc.m.halting = 0
    /\ cc.m.clockcycles_ran < MaxRunCycles
    /\ cc' = [cc EXCEPT !.m = step(cc.m)]
    /\ UNCHANGED <<cpu, phase, alu, asm, ld, pp, lcd, ps>>

NextComp == Compile \/ Run

SpecComp == InitComp /\ [][NextComp]_vars

----------------------------------------------------------------------------
(* Claims about compiled programs *)

(* The value of the terms of an expression on the memory of machine c *)
RECURSIVE terms_value(_, _)
terms_value(terms, c) ==
    IF terms = << >> THEN 0
    ELSE Head(terms).sign
           * (IF Head(terms).term.kind = "literal" THEN Head(terms).term.value
              ELSE c.memory[cc.out.variables[<< Head(terms).term.name >>]])
         + terms_value(Tail(terms), c)

(* The value of an expression of the source on the memory of the machine *)
Value(text) == terms_value(parse_expression(text), cc.m)

(* The address of the first instruction with the mnemonic *)
RECURSIVE address_of(_, _, _)
address_of(program, mnemonic, address) ==
    IF program = << >> \/ Head(program).tokens[1] = << mnemonic >> THEN address
    ELSE address_of(Tail(program), mnemonic, address + Len(Head(program).tokens))

(* The compiled program runs and is about to fetch an instruction *)
Fetching ==
    /\ cc.stage = "loaded" /\ cc.out.err = "none"
    /\ cc.m.error = "none" /\ cc.m.halting = 0 /\ cc.m.op_timestep = 0
    /\ cc.m.prog_count \in 0 .. (memory_size - 2)

(* The machine is about to fetch the conditional jump of the test *)
AtTest ==
    /\ Fetching /\ cc.src.family = "cond"
    /\ cc.m.memory[cc.m.prog_count]
         \in {build_instruction_map.JPZ, build_instruction_map.JNZ}

(* `a == right` or `a != right` on the values now in memory, modulo 2^W *)
ConditionHolds ==
    LET d == (Value(<< "a" >>) - Value(cc.src.right)) % overflow_limit
    IN  IF cc.src.op = "==" THEN d = 0 ELSE d # 0

(* C11: for a condition `lhs == rhs` (`lhs != rhs`) of an if or a while,  *)
(* the machine goes on with the body exactly when lhs and rhs have equal  *)
(* (unequal) values modulo 2^W, and to the label past the body otherwise  *)
C11_BodyRunsIffConditionHolds ==
    AtTest =>
        instruction_end(cc.m).prog_count
          = IF ConditionHolds THEN cc.m.prog_count + 2
            ELSE cc.m.memory[cc.m.prog_count + 1]

(* The machine is about to fetch the RET of the function f, the last word *)
(* of the code                                                             *)
AtReturn ==
    /\ Fetching /\ cc.src.family = "ret"
    /\ cc.m.prog_count = code_length(cc.out.program) - 1
    /\ cc.m.memory[cc.m.prog_count] = build_instruction_map.RET

(* C12: for a function that returns k >= 2 values, RET returns to the     *)
(* instruction after the JSR of the caller with the k values on the stack *)
(* and the first on top, and when the caller has halted the i-th          *)
(* destination holds the value of the i-th return expression              *)
C12_MultiValueReturn ==
    /\ AtReturn =>
         LET d == instruction_end(cc.m) IN
         /\ d.prog_count = address_of(cc.out.program, "JSR", 0) + 2
         /\ d.stackpointer = Len(cc.src.exprs)
         /\ d.memory[stackpointer_start + d.stackpointer - 1] = Value(cc.src.exprs[1])
    /\ (cc.stage = "loaded" /\ cc.src.family = "ret" /\ cc.m.halting # 0) =>
         /\ cc.m.prog_count = address_of(cc.out.program, "HLT", 0) + 1
         /\ cc.m.stackpointer = 0
         /\ \A i \in 1 .. Len(cc.src.exprs) :
              cc.m.memory[cc.out.variables[<< destinations(Len(cc.src.exprs))[i] >>]]
                = Value(cc.src.exprs[i])

(* The machine is about to fetch the RET of the function f, the last word *)
(* of the code, in a program that calls f with arguments                  *)
AtCallReturn ==
    /\ Fetching /\ cc.src.family = "call"
    /\ cc.m.prog_count = code_length(cc.out.program) - 1
    /\ cc.m.memory[cc.m.prog_count] = build_instruction_map.RET

(* C26: for a call with n arguments of a function with n parameters, the  *)
(* i-th parameter slot holds the value of the i-th argument when the      *)
(* function returns, and RET returns to the instruction after the JSR     *)
(* with the stack pointer it had before the arguments were pushed         *)
C26_CallPassesArguments ==
    AtCallReturn =>
        /\ \A i \in 1 .. Len(cc.src.exprs) :
              cc.m.memory[cc.out.variables[<< parameters(Len(cc.src.exprs))[i] >>]]
                = Value(cc.src.exprs[i])
        /\ instruction_end(cc.m).prog_count = address_of(cc.out.program, "JSR", 0) + 2
        /\ instruction_end(cc.m).stackpointer = 0

(* `STA X` at line i with `LDA X` at line k *)
store_and_load(lines, i, k) ==
    /\ op_of(lines[i]) = "STA" /\ op_of(lines[k]) = "LDA"
    /\ operand_text(lines[k]) = operand_text(lines[i])

(* Line i is `STA X` and the line after it is `LDA X` *)
reload_at(lines, i) == i < Len(lines) /\ store_and_load(lines, i, i + 1)

(* The line is `ADI 0` (`SUI 0`) *)
imm_zero(line, m) == matches_imm(line, m) /\ line.toks[2] = << "0" >>

(* The lines between i and k are lines the pass takes out after `STA X`:   *)
(* `LDA X`, `ADI 0`, `SUI 0`                                                *)
removed_between(lines, i, k) ==
    \A n \in (i + 1) .. (k - 1) :
        \/ imm_zero(lines[n], "ADI") \/ imm_zero(lines[n], "SUI")
        \/ store_and_load(lines, i, n)

----------------------------------------------------------------------------
(* Claims about variable-into-memory lines *)

(* The address the line `TARGET = 3` names *)
TargetAddress == eval_expr_core(asm.target, << >>)

(* C21: a variable-into-memory assignment whose target address lies       *)
(* outside [0, memory size) is a fatal assembly error                      *)
C21_OutOfRangeWriteFatal ==
    (asm.done /\ TargetAddress \notin 0 .. (snippet_memory_size - 1))
        => asm.out.err # "none"

----------------------------------------------------------------------------
(* Claims about the halt by HLT *)

(* The machine has stopped in the execute step of an HLT it fetched *)
HaltedByHLT ==
    /\ cpu.error = "none" /\ cpu.halting # 0
    /\ cpu.op_timestep = 2 /\ cpu.inst_reg_a = instruction_map.HLT

(* The machine runs `LDI 7; ADD .k; OUT; HLT` with k = 7 *)
RunsArithmetic == cpu.memory = Computer(prog_arith).memory

(* C29 as stated: when the machine has halted by HLT, PC is the address    *)
(* the HLT opcode was fetched from                                         *)
C29_HaltedAtHLT ==
    HaltedByHLT => cpu.prog_count = cpu.memaddress

(* C29: when the machine has halted by HLT, PC is the address after the    *)
(* HLT opcode word; for `LDI 7; ADD .k; OUT; HLT` with k = 7 it is 6, with *)
(* Output = 14, A = 14, Carry = 0 and Zero = 0                             *)
C29_HaltedPastHLT ==
    HaltedByHLT =>
        /\ cpu.prog_count = cpu.memaddress + 1
        /\ cpu.memory[cpu.memaddress] = instruction_map.HLT
        /\ RunsArithmetic =>
              /\ cpu.prog_count = 6 /\ cpu.out_regist = 14 /\ cpu.areg = 14
              /\ cpu.flagreg = 0

(* C29 witness: the arithmetic program has halted at its HLT *)
C29_Witness == HaltedByHLT /\ RunsArithmetic /\ cpu.out_regist = 14

----------------------------------------------------------------------------
(* Claims about the timestep *)

(* The host's call is clock_low, on a running machine *)
ClockLowWhileRunning ==
    /\ phase.clock = "high" /\ phase'.clock = "low" /\ phase'.reset_from = "none"
    /\ cpu.error = "none" /\ cpu.halting = 0

(* The host's call is step, on a running machine *)
StepWhileRunning ==
    /\ phase.clock = "low" /\ phase'.clock = "low" /\ phase'.updated
    /\ phase'.reset_from = "none"
    /\ cpu'.clockcycles_ran = cpu.clockcycles_ran + 1
    /\ cpu.error = "none" /\ cpu.halting = 0 /\ cpu'.error = "none"

(* C30: on a running machine clock_low increments the timestep and sets it *)
(* to 0 when the control word asserts ORE or the incremented timestep      *)
(* reaches 8; the timestep is always in 0 .. 7, and a clock cycle either   *)
(* moves it one up or starts a fetch                                       *)
C30_TimestepCycle ==
    [][/\ cpu'.op_timestep \in 0 .. 7
       /\ ClockLowWhileRunning =>
             cpu'.op_timestep
               = IF "ORE" \in cpu.controlword \/ cpu.op_timestep + 1 >= 8 THEN 0
                 ELSE cpu.op_timestep + 1
       /\ StepWhileRunning =>
             \/ cpu'.op_timestep \in {0, cpu.op_timestep + 1}
             \/ cpu'.halting # 0 /\ cpu'.op_timestep = cpu.op_timestep]_vars

(* C30 witness: an instruction without micro-steps has run through the     *)
(* timesteps 2 .. 7 and its eighth clock cycle has set the timestep to 0   *)
C30_Witness ==
    /\ cpu.error = "none" /\ cpu.halting = 0 /\ phase.clock = "low"
    /\ cpu.clockcycles_ran >= 8 /\ cpu.op_timestep = 0
    /\ cpu.inst_reg_a \in assembly_keys /\ assembly(cpu.inst_reg_a) = << >>

----------------------------------------------------------------------------
(* The LCD display (cpu_sim.py, class LCD_display) behind the screen data  *)
(* and screen control registers of the machine                             *)

(* value & (1 << k), as 0 or 1 *)
bit(value, k) == (value \div Pow2(k)) % 2

(* The cells of LCD_display.memory *)
lcd_cells == 128

(* self.memory[index] = value of a numpy array: a negative index counts    *)
(* from the end, an index outside -size .. size - 1 raises IndexError      *)
lcd_store(l, index, value) ==
    IF index \in 0 .. (lcd_cells - 1) THEN [l EXCEPT !.memory[index] = value]
    ELSE IF index \in (0 - lcd_cells) .. (0 - 1)
      THEN [l EXCEPT !.memory[index + lcd_cells] = value]
    ELSE [l EXCEPT !.error = "IndexError"]

(* LCD_display.__init__ *)
LCD_display ==
    [ data |-> 0, control |-> 0, previous_enable |-> FALSE, cursor_pos |-> 0,
      cursoron |-> 0, cursorblink |-> 0, cursor_dir |-> 1, shift |-> 0,
      shifting |-> 0, memory |-> [i \in 0 .. (lcd_cells - 1) |-> 0],
      error |-> "none" ]

(* The step of the cursor in the entry direction *)
cursor_step(l) == IF l.cursor_dir = 1 THEN 1 ELSE 0 - 1

(* LCD_display.enable_set, RS high: the data byte is stored at the cursor  *)
(* and the cursor (with the shift, when shifting) moves on                 *)
enable_set_data(l) ==
    LET w == lcd_store(l, l.cursor_pos, l.data) IN
    IF w.error # "none" THEN w
    ELSE [w EXCEPT !.cursor_pos = @ + cursor_step(l),
                   !.shift = IF l.shifting # 0 THEN @ + cursor_step(l) ELSE @]

(* LCD_display.enable_set, RS low: the command on the data lines *)
enable_set_command(l) ==
    IF bit(l.data, 7) = 1 \/ bit(l.data, 6) = 1 \/ bit(l.data, 5) = 1 THEN l
    ELSE IF bit(l.data, 4) = 1
      THEN IF bit(l.data, 3) = 1
           THEN [l EXCEPT !.shift = IF bit(l.data, 2) = 1 THEN @ + 1 ELSE @ - 1]
           ELSE [l EXCEPT !.cursor_pos = @ + cursor_step(l)]
    ELSE IF bit(l.data, 3) = 1
      THEN [l EXCEPT !.cursoron = bit(l.data, 1), !.cursorblink = bit(l.data, 0)]
    ELSE IF bit(l.data, 2) = 1
      THEN [l EXCEPT !.cursor_dir = bit(l.data, 1), !.shifting = bit(l.data, 0)]
    ELSE IF bit(l.data, 1) = 1
      THEN [l EXCEPT !.cursor_pos = 0, !.shift = 0]
    ELSE IF bit(l.data, 0) = 1
      THEN [l EXCEPT !.memory = [i \in 0 .. (lcd_cells - 1) |-> 0],
                     !.cursor_pos = 0, !.shift = 0]
    ELSE l

(* LCD_display.enable_set *)
enable_set(l) ==
    IF bit(l.control, 6) = 1
    THEN IF bit(l.control, 7) = 1 THEN enable_set_data(l) ELSE l
    ELSE enable_set_command(l)

(* LCD_display.set_data_lines(value) *)
set_data_lines(l, value) == [l EXCEPT !.data = value]

(* The control lines taken over and enable_set called whenever E is high *)
set_control_bits_by_level(l, value) ==
    LET c == [l EXCEPT !.control = value] IN
    IF bit(value, 7) = 1 THEN [enable_set(c) EXCEPT !.previous_enable = TRUE]
    ELSE [c EXCEPT !.previous_enable = FALSE]

(* LCD_display.set_control_bits(value): enable_set when E is high and was  *)
(* not at the call before; an exception of enable_set leaves               *)
(* previous_enable as it was                                               *)
set_control_bits(l, value) ==
    LET c == [l EXCEPT !.control = value] IN
    IF bit(value, 7) = 1
    THEN IF ~ c.previous_enable
         THEN LET e == enable_set(c)
              IN IF e.error # "none" THEN e ELSE [e EXCEPT !.previous_enable = TRUE]
         ELSE [c EXCEPT !.previous_enable = TRUE]
    ELSE [c EXCEPT !.previous_enable = FALSE]

(* Game.update_LCD_display with the two registers of the machine *)
update_LCD_display(l, screen_data, screen_control) ==
    set_control_bits(set_data_lines(l, screen_data), screen_control * Pow2(5))

(* The Monitor (src/32bit/cpu_sim_32_monitor.py, class Monitor), the       *)
(* display of the 32-bit Game                                              *)
monitor_columns == 40
monitor_rows == 20

(* Monitor.__init__: cursor_pos[0] is the column, cursor_pos[1] the row *)
Monitor ==
    [ data |-> 0, control |-> 0, previous_enable |-> FALSE,
      cursor_pos |-> [i \in 0 .. 1 |-> 0], cursoron |-> 0, cursorblink |-> 0,
      cursor_dir |-> 1,
      memory |-> [i \in 0 .. (monitor_columns * monitor_rows - 1) |-> 0],
      error |-> "none" ]

(* Monitor.shift_up: every row takes the row below it, the last is cleared *)
shift_up(mo) ==
    LET memsize == monitor_columns * monitor_rows IN
    [mo EXCEPT !.memory = [i \in 0 .. (memsize - 1) |->
                             IF i < memsize - monitor_columns
                             THEN mo.memory[i + monitor_columns] ELSE 0]]

(* Monitor.limit_cursor: below the last row the screen is shifted up; the  *)
(* column and the row are kept inside the screen                           *)
limit_cursor(mo) ==
    LET a == IF mo.cursor_pos[1] >= monitor_rows
             THEN shift_up([mo EXCEPT !.cursor_pos[1] = monitor_rows - 1]) ELSE mo
        b == IF a.cursor_pos[0] >= monitor_columns
             THEN [a EXCEPT !.cursor_pos[0] = monitor_columns - 1] ELSE a
        c == IF b.cursor_pos[0] < 0 THEN [b EXCEPT !.cursor_pos[0] = 0] ELSE b
    IN IF c.cursor_pos[1] < 0 THEN [c EXCEPT !.cursor_pos[1] = 0] ELSE c

(* self.memory[cursor_mem] = value of the numpy array of the Monitor *)
monitor_store(mo, index, value) ==
    LET memsize == monitor_columns * monitor_rows IN
    IF index \in 0 .. (memsize - 1) THEN [mo EXCEPT !.memory[index] = value]
    ELSE IF index \in (0 - memsize) .. (0 - 1)
      THEN [mo EXCEPT !.memory[index + memsize] = value]
    ELSE [mo EXCEPT !.error = "IndexError"]

(* Monitor.enable_set: with RS and E the data byte is stored at the cursor *)
(* and the cursor moves one column; without RS the command on the data     *)
(* lines: next line, cursor control, display control, home, clear          *)
monitor_enable_set(mo) ==
    IF bit(mo.control, 6) = 1
    THEN IF bit(mo.control, 7) = 1
         THEN LET w == monitor_store(mo, mo.cursor_pos[0]
                                           + mo.cursor_pos[1] * monitor_columns, mo.data)
              IN IF w.error # "none" THEN w
                 ELSE limit_cursor([w EXCEPT !.cursor_pos[0] =
                                       IF mo.cursor_dir = 1 THEN @ + 1 ELSE @ - 1])
         ELSE mo
    ELSE IF bit(mo.data, 7) = 1 \/ bit(mo.data, 6) = 1 THEN mo
    ELSE IF bit(mo.data, 5) = 1
      THEN LET n == [mo EXCEPT !.cursor_pos[0] = 0, !.cursor_pos[1] = @ + 1]
           IN IF n.cursor_pos[1] >= monitor_rows
              THEN shift_up([n EXCEPT !.cursor_pos[1] = monitor_rows - 1]) ELSE n
    ELSE IF bit(mo.data, 4) = 1
      THEN limit_cursor([mo EXCEPT
             !.cursor_pos[0] = @ + bit(mo.data, 0) - bit(mo.data, 1),
             !.cursor_pos[1] = @ + bit(mo.data, 2) - bit(mo.data, 3)])
    ELSE IF bit(mo.data, 3) = 1
      THEN [mo EXCEPT !.cursoron = bit(mo.data, 1), !.cursorblink = bit(mo.data, 0)]
    ELSE IF bit(mo.data, 2) = 1 THEN mo
    ELSE IF bit(mo.data, 1) = 1
      THEN [mo EXCEPT !.cursor_pos = [i \in 0 .. 1 |-> 0]]
    ELSE IF bit(mo.data, 0) = 1
      THEN [mo EXCEPT !.memory = [i \in 0 .. (monitor_columns * monitor_rows - 1) |-> 0],
                      !.cursor_pos = [i \in 0 .. 1 |-> 0]]
    ELSE mo

(* Monitor.set_control_bits(value) after set_data_lines(data) *)
monitor_update(mo, screen_data, screen_control) ==
    LET c == [mo EXCEPT !.data = screen_data, !.control = screen_control * Pow2(5)] IN
    IF bit(c.control, 7) = 1
    THEN IF ~ c.previous_enable
         THEN LET e == monitor_enable_set(c)
              IN IF e.error # "none" THEN e ELSE [e EXCEPT !.previous_enable = TRUE]
         ELSE [c EXCEPT !.previous_enable = TRUE]
    ELSE [c EXCEPT !.previous_enable = FALSE]

(* The bytes given to the Monitor: `A`, next line, cursor right, left,     *)
(* down and up                                                             *)
MonitorData == {65, 32, 17, 18, 20, 24}

(* The cursors the runs of the Monitor start from: the four corners, each  *)
(* reached from home by cursor commands alone                              *)
MonitorCorners ==
    { [i \in 0 .. 1 |-> IF i = 0 THEN c * (monitor_columns - 1)
                                  ELSE r * (monitor_rows - 1)] :
        c \in {0, 1}, r \in {0, 1} }

(* The bytes on the data lines: `A`, clear, home, entry mode to the left,  *)
(* shift right                                                             *)
ScreenData == {65, 1, 2, 4, 28}

(* The control register: nothing, RS, E, E with RS *)
ScreenControl == {0, 2, 4, 6}

(* Number of updates of the display in a run *)
MaxUpdates == 3

(* The Game that runs: cpu_sim.Game with the LCD display, or the 32-bit    *)
(* Game with the Monitor                                                   *)
InitLCD ==
    /\ \/ lcd = [ game |-> "Game", display |-> LCD_display, monitor |-> Monitor,
                  updates |-> 0 ]
       \/ \E corner \in MonitorCorners :
            lcd = [ game |-> "Game_32", display |-> LCD_display,
                    monitor |-> [Monitor EXCEPT !.cursor_pos = corner], updates |-> 0 ]
    /\ cpu = Idle /\ phase = Idle /\ alu = Idle /\ asm = Idle /\ ld = Idle
    /\ pp = Idle /\ cc = Idle /\ ps = Idle

(* One clock cycle of the Game: the display is given the two registers *)
UpdateLCD ==
    /\ lcd.game = "Game"
    /\ lcd.updates < MaxUpdates /\ lcd.display.error = "none"
    /\ \E d \in ScreenData, c \in ScreenControl :
         lcd' = [lcd EXCEPT !.display = update_LCD_display(lcd.display, d, c),
                            !.updates = @ + 1]
    /\ UNCHANGED <<cpu, phase, alu, asm, ld, pp, cc, ps>>

(* One clock cycle of the 32-bit Game: the Monitor is given the registers *)
UpdateMonitor ==
    /\ lcd.game = "Game_32"
    /\ lcd.updates < MaxUpdates /\ lcd.monitor.error = "none"
    /\ \E d \in MonitorData, c \in ScreenControl :
         lcd' = [lcd EXCEPT !.monitor = monitor_update(lcd.monitor, d, c),
                            !.updates = @ + 1]
    /\ UNCHANGED <<cpu, phase, alu, asm, ld, pp, cc, ps>>

NextLCD == UpdateLCD \/ UpdateMonitor

SpecLCD == InitLCD /\ [][NextLCD]_vars

----------------------------------------------------------------------------
(* Claims about the LCD display *)

(* The E line, bit 7 of the control lines *)
E(l) == bit(l.control, 7) = 1

(* What the display keeps: memory, cursor, shift and modes *)
Latched(l) ==
    << l.memory, l.cursor_pos, l.shift, l.cursor_dir, l.shifting, l.cursoron,
       l.cursorblink >>

C39_CursorAddressesValidCell ==
    /\ lcd.display.cursor_pos \in 0 .. (lcd_cells - 1)
    /\ lcd.monitor.cursor_pos[0] \in 0 .. (monitor_columns - 1)
    /\ lcd.monitor.cursor_pos[1] \in 0 .. (monitor_rows - 1)

----------------------------------------------------------------------------
(* Claims about update *)

(* What update is said to leave alone: PC, A, B, IR, MAR/MDR, SP, Output,  *)
(* FlagReg, the memory and the timestep                                    *)
Registers(c) ==
    << c.prog_count, c.areg, c.breg, c.inst_reg_a, c.inst_reg_b, c.memaddress,
       c.memcontent, c.stackpointer, c.out_regist, c.flagreg, c.memory,
       c.op_timestep >>

(* C31: update changes only the bus, Sum, the flags (Carry, Zero) and the   *)
(* control word, never PC, A, B, IR, MAR/MDR, SP, Output, FlagReg, the      *)
(* memory or the timestep, and a second call in succession changes nothing  *)
C31_UpdateFrameAndIdempotent ==
    /\ Registers(update(cpu)) = Registers(cpu)
    /\ update(update(cpu)) = update(cpu)

(* C31 witness: update has just put the ALU sum of a subtraction on the bus *)
C31_Witness ==
    /\ phase.updated /\ cpu = update(cpu)
    /\ cpu.op_timestep >= 2 /\ {"EO", "SU"} \subseteq cpu.controlword
    /\ cpu.bus = cpu.sumreg /\ cpu.sumreg # cpu.areg + cpu.breg

(* C32: in every state the control word produced by update is exactly      *)
(* CO|MI at timestep 0 and exactly RO|IAI|CE at timestep 1, whatever opcode *)
(* the instruction register holds                                          *)
C32_FetchControlWords ==
    /\ cpu.error = "none" /\ cpu.op_timestep = 0
          => update(cpu).controlword = {"CO", "MI"}
    /\ cpu.error = "none" /\ cpu.op_timestep = 1
          => update(cpu).controlword = {"RO", "IAI", "CE"}
    /\ phase.updated /\ cpu.op_timestep = 0 => cpu.controlword = {"CO", "MI"}
    /\ phase.updated /\ cpu.op_timestep = 1 => cpu.controlword = {"RO", "IAI", "CE"}

(* C32 witness: update has selected RO|IAI|CE at timestep 1 while the       *)
(* instruction register holds JNZ, an opcode without micro-steps            *)
C32_Witness ==
    /\ phase.updated /\ cpu.op_timestep = 1 /\ cpu.inst_reg_a = 27
    /\ assembly(cpu.inst_reg_a) = << >>
    /\ cpu.controlword = {"RO", "IAI", "CE"}

----------------------------------------------------------------------------
(* Claims about the program table *)

(* The modules listed in the table: those with an `entry` *)
Listed == { k \in DOMAIN ld.data : ld.data[k].entry # "" }

(* The 10 words of entry i of the emitted table *)
entry_words(i) == SubSeq(ld.program_table.words, 10 * (i - 1) + 1, 10 * i)

(* The 8 name words of a module: its upper-cased name cut to 8 characters  *)
(* and padded with zeros                                                   *)
name_words(k) ==
    [i \in 1 .. 8 |-> IF i <= Len(name_codes(k)) THEN name_codes(k)[i] ELSE 0]

(* C33: the emitted program table has one 10-word entry per listed module   *)
(* (8 name words padded with zeros, one word with the base address, one    *)
(* reserved word 0), the entries in non-decreasing order of the base       *)
(* address, and one zero word, the sentinel, after them                    *)
C33_ProgramTableLayout ==
    Succeeded =>
      LET t == ld.program_table.words
          n == Cardinality(Listed)
      IN /\ Len(t) = 10 * n + 1 /\ ld.program_table.length = Len(t)
         /\ t[Len(t)] = 0
         /\ \E f \in [1 .. n -> Listed] :
               /\ \A i, j \in 1 .. n : f[i] = f[j] => i = j
               /\ \A i \in 1 .. n :
                     /\ SubSeq(entry_words(i), 1, 8) = name_words(f[i])
                     /\ entry_words(i)[9] = ld.data[f[i]].base
                     /\ entry_words(i)[10] = 0
         /\ \A i \in 1 .. (n - 1) : entry_words(i)[9] <= entry_words(i + 1)[9]

(* C33 witness: a table of three entries whose order is not the order in    *)
(* which the modules were placed, with a name longer than 8 characters and *)
(* a data module that is not listed                                        *)
C33_Witness ==
    /\ Succeeded /\ Cardinality(Listed) = 3 /\ Listed # DOMAIN ld.data
    /\ "calculator" \in Listed
    /\ ld.data[ld.names[1]].base > ld.data[ld.names[2]].base
    /\ Len(ld.program_table.words) = 31

----------------------------------------------------------------------------
(* Claims about let and arithmetic *)

(* The value of an expression of the source under integer semantics: a     *)
(* sign in front of a term negates it, so `a - -5` is a + 5                *)
RECURSIVE source_value(_, _, _, _, _, _)
source_value(text, idx, env, total, current, sign) ==
    LET value == IF is_int(strip(current)) THEN int_of(strip(current))
                 ELSE env[strip(current)[1]]
    IN IF idx > Len(text)
       THEN (IF strip(current) # << >> THEN total + sign * value ELSE total)
       ELSE IF text[idx] \in {"+", "-"}
       THEN LET s == IF text[idx] = "+" THEN 1 ELSE -1 IN
            IF strip(current) # << >>
            THEN source_value(text, idx + 1, env, total + sign * value, << >>, s)
            ELSE source_value(text, idx + 1, env, total, << >>, sign * s)
       ELSE source_value(text, idx + 1, env, total, Append(current, text[idx]), sign)

(* The value the source gives r: `let r = e`, `r += e`, `r -= e` after      *)
(* `let a = ..`, `let b = ..`, `let r = ..`                                 *)
specified_result(src) ==
    LET env == [a |-> src.a, b |-> src.b, r |-> src.c]
        e   == source_value(src.exprs[1], 1, env, 0, << >>, 1)
    IN (CASE src.op = "="  -> e
          [] src.op = "+=" -> src.c + e
          [] src.op = "-=" -> src.c - e) % overflow_limit

(* The let program has run to its HLT *)
LetCompleted ==
    /\ cc.stage = "loaded" /\ cc.src.family = "let"
    /\ cc.out.err = "none" /\ cc.m.error = "none" /\ cc.m.halting # 0

(* C34: for a program of scalar lets and arithmetic, when the assembled    *)
(* output of the compiler has run to completion the result variable holds  *)
(* the value the source specifies under integer semantics modulo 2^W       *)
C34_LetComputesSpecifiedValue ==
    LetCompleted =>
        cc.m.memory[cc.out.variables[<< "r" >>]] = specified_result(cc.src)

----------------------------------------------------------------------------
(* Claims about arrays *)

(* The array program has run to its HLT *)
ArrayCompleted ==
    /\ cc.stage = "loaded" /\ cc.src.family = "array"
    /\ cc.out.err = "none" /\ cc.m.error = "none" /\ cc.m.halting # 0

(* The cells the array program may write besides arr[k]: r, arr[0] when    *)
(* it is set first, the two scratch variables and the stack                *)
array_scratch_cells(src, variables) ==
    { variables[<< "r" >>], variables[<< "__tmp_addr" >>], variables[<< "__tmp_base" >>] }
      \cup (IF src.c # 0 THEN { variables[<< "arr" >>] } ELSE { })
      \cup { i \in 0 .. (memory_size - 1) :
                i >= stackpointer_start /\ i < stackpointer_start + Pow2(bits_stackpointer) }

(* C37: for the array arr of size n and a static index k with 0 <= k < n,  *)
(* after `let arr[k] = v` and `let r = arr[k]` have run, r holds v, the    *)
(* cell at base(arr) + k holds v, and no cell other than that one (and the *)
(* result, the scratch variables and the stack) differs from the loaded    *)
(* image                                                                   *)
C37_ArrayStoreLoadSameCell ==
    ArrayCompleted =>
        LET variables == cc.out.variables
            cell == variables[<< "arr" >>] + cc.src.b
        IN /\ cc.m.memory[variables[<< "r" >>]] = cc.src.a
           /\ cc.m.memory[cell] = cc.src.a
           /\ \A i \in 0 .. (memory_size - 1) :
                 i \notin array_scratch_cells(cc.src, variables) \cup { cell }
                   => cc.m.memory[i] = read(cc.out.mem, i) % overflow_limit

----------------------------------------------------------------------------
(* Claims about relocation and labels *)

(* The names of the label lines of a module *)
labels_of(lines) ==
    { lines[i].name : i \in { j \in 1 .. Len(lines) : lines[j].kind = "label" } }

(* The operand words assembled from a label of the module: code index of   *)
(* the instruction and its mnemonic                                        *)
RECURSIVE label_sites(_, _, _)
label_sites(lines, labels, idx) ==
    IF lines = << >> THEN {}
    ELSE IF Head(lines).kind # "ins" THEN label_sites(Tail(lines), labels, idx)
    ELSE LET toks == Head(lines).toks
         IN (IF Len(toks) > 1 /\ toks[2] \in labels
             THEN { << idx, mnemonic_of(toks[1]) >> } ELSE {})
              \cup label_sites(Tail(lines), labels, idx + Len(toks))

(* The control-flow instructions of the module whose operand is a label *)
label_jumps(file) ==
    LET lines == parse_headers_and_preprocess(file).lines IN
    { x \in label_sites(lines, labels_of(lines), 0) :
        x[2] \in {"JMP", "JPC", "JPZ", "JNZ", "JSR"} }

(* C35: after a module is relocated to a base b other than 0, every JMP,   *)
(* JPC, JPZ, JNZ and JSR whose operand was assembled from a label of the   *)
(* module has the operand b + the module-relative address of the label     *)
C35_LabelOperandsRelocated ==
    ld.pass = "first" =>
      \A i \in 1 .. Len(ld.srcs) :
          (i < ld.next /\ module_key(ld.srcs[i]) \in Placed /\ ld.data[module_key(ld.srcs[i])].base # 0)
              => \A x \in label_jumps(ld.srcs[i]) :
                    ld.data[module_key(ld.srcs[i])].words[x[1] + 2]
                      = ld.data[module_key(ld.srcs[i])].base
                          + unrelocated(ld.srcs[i]).words[x[1] + 2]

(* The files that call their own first label: `start:` at module offset 0 *)
(* and `JSR start` as the first instruction                                *)
SelfCalling ==
    { i \in 1 .. Len(ld.srcs) : ld.srcs[i].body \in { SelfCallBody, SelfCallExternBody } }

(* C40: a module with an intra-module JSR to a label at module offset 0    *)
(* builds: it is placed, that JSR (code index 0) is not among its extern   *)
(* sites, its operand is the module base, and every `@symbol` site holds   *)
(* the address of its own symbol                                           *)
C40_SelfCallModuleBuilds ==
    ld.pass = "done" =>
      \A i \in SelfCalling :
        LET stem == module_key(ld.srcs[i]) IN
          /\ ld.exit = "0" /\ stem \in Placed
          /\ \A k \in 1 .. Len(ld.data[stem].externs) :
                ld.data[stem].externs[k].code_index # 0
          /\ ld.data[stem].words[2] = ld.data[stem].base
          /\ \A k \in 1 .. Len(ld.data[stem].externs) :
                ld.data[stem].words[ld.data[stem].externs[k].code_index + 2]
                  = ld.data[last_definer(lower(ld.data[stem].externs[k].symbol))].base

----------------------------------------------------------------------------
(* Claims about the two instruction maps *)

(* The operand words a microbody reads: its steps that count the PC up *)
operands_consumed(body) == Cardinality({ i \in 1 .. Len(body) : "CE" \in body[i] })

(* The mnemonic has the same opcode in both maps and a microbody that      *)
(* reads as many operand words as an instruction line of it has            *)
agrees(m) ==
    /\ m \in DOMAIN instruction_map
    /\ instruction_map[m] = build_instruction_map[m]
    /\ assembly(build_instruction_map[m]) # << >>
    /\ operands_consumed(assembly(build_instruction_map[m])) = operand_count(m)

(* C36: every mnemonic of the assembler's instruction map has the same     *)
(* opcode in the instruction map of the CPU, and that opcode has a         *)
(* microbody that is not empty and reads as many operand words as the      *)
(* assembler emits for the mnemonic; the opcode in the instruction         *)
(* register of the running machine is one of these                         *)
C36_InstructionSetsAgree ==
    /\ \A m \in DOMAIN build_instruction_map : agrees(m)
    /\ (cpu.error = "none" /\ cpu.op_timestep >= 2 /\ cpu.inst_reg_a \in 0 .. 255)
          => assembly(cpu.inst_reg_a) # << >>

----------------------------------------------------------------------------
(* The parser of Mini32 (mini32_compiler.py, class Mini32Parser): the      *)
(* symbol table and the scope of a function                                *)

(* The names of the sources *)
ParserNames == {"x", "y", "z"}

(* No Symbol: self.symbols.get(name) is None *)
NoSymbol == [name |-> << >>, kind |-> "none", offset |-> 0, size |-> 0]

(* Symbol(name=..., kind="var", offset=..., size=...) *)
Symbol(name, offset, size) == [name |-> name, kind |-> "var", offset |-> offset, size |-> size]

(* Mini32Parser.__init__: no line parsed, no symbol of the sources, no     *)
(* open scope                                                              *)
Mini32Parser(lines) ==
    [ lines |-> lines, pos |-> 1, vars |-> << >>, bss_cursor |-> 0,
      symbols |-> [n \in ParserNames |-> NoSymbol],
      scope_stack |-> << >>, current_function |-> "", error |-> "none" ]

(* _enter_function_scope(func_name): an empty frame is pushed *)
enter_function_scope(p, func_name) ==
    [p EXCEPT !.scope_stack = Append(@, << >>), !.current_function = func_name]

(* _add_var(name, size, local=True, func_name): the symbol the name had is *)
(* recorded in the top frame, the variable `<func>.<name>` is allocated    *)
(* and the name bound to it                                                *)
add_var(p, name, size) ==
    LET top   == Len(p.scope_stack)
        frame == p.scope_stack[top]
        internal_name == << p.current_function, ".", name >>
    IN [p EXCEPT !.scope_stack[top] = (name :> p.symbols[name]) @@ frame,
                 !.vars = Append(@, [name |-> internal_name, offset |-> p.bss_cursor,
                                     size |-> size]),
                 !.symbols[name] = Symbol(internal_name, p.bss_cursor, size),
                 !.bss_cursor = @ + size]

(* _exit_function_scope: the frame is popped, every name of it is removed  *)
(* when it recorded None and bound to the recorded symbol otherwise        *)
exit_function_scope(p) ==
    IF p.scope_stack = << >> THEN p
    ELSE LET top   == Len(p.scope_stack)
             frame == p.scope_stack[top]
         IN [p EXCEPT !.scope_stack = SubSeq(@, 1, top - 1),
                      !.symbols = [n \in ParserNames |->
                                     IF n \in DOMAIN frame THEN frame[n] ELSE @[n]],
                      !.current_function = ""]

(* _parse_var at the top level: `var NAME` or `var NAME[SIZE]` *)
parse_var(p, line) ==
    IF p.symbols[line.name] # NoSymbol THEN [p EXCEPT !.error = "Duplicate symbol"]
    ELSE [p EXCEPT !.vars = Append(@, [name |-> << line.name >>, offset |-> p.bss_cursor,
                                       size |-> line.size]),
                   !.symbols[line.name] = Symbol(<< line.name >>, p.bss_cursor, line.size),
                   !.bss_cursor = @ + line.size,
                   !.pos = @ + 1]

(* The loop of _parse_function over the arguments *)
RECURSIVE add_args(_, _)
add_args(p, raw_args) ==
    IF raw_args = << >> THEN p
    ELSE add_args(add_var(p, Head(raw_args), 1), Tail(raw_args))

(* _parse_block over `let NAME = 1` lines: _parse_target makes a local of  *)
(* a name that has no symbol                                               *)
RECURSIVE parse_block(_, _)
parse_block(p, targets) ==
    IF targets = << >> THEN p
    ELSE parse_block(IF p.symbols[Head(targets)] = NoSymbol
                     THEN add_var(p, Head(targets), 1) ELSE p,
                     Tail(targets))

(* _parse_function: the scope is entered, the arguments are added, the     *)
(* body is parsed, the scope is left                                       *)
parse_function(p, line) ==
    [exit_function_scope(
        parse_block(add_args(enter_function_scope(p, line.name), line.args), line.body))
     EXCEPT !.pos = @ + 1]

(* The top-level lines of the sources *)
VarLines == { [kind |-> "var", name |-> n, size |-> k, args |-> << >>, body |-> << >>] :
                n \in {"x", "y"}, k \in {1, 3} }

FuncArgs == { << >>, << "x" >>, << "z" >>, << "x", "y" >>, << "x", "x" >> }

FuncBodies == { << >>, << "x" >>, << "z" >>, << "z", "x", "z" >> }

FuncLines == { [kind |-> "func", name |-> "f", size |-> 1, args |-> a, body |-> b] :
                 a \in FuncArgs, b \in FuncBodies }

(* Number of top-level lines of a source *)
MaxTopLines == 2

ParserSources ==
    UNION { [1 .. k -> VarLines \cup FuncLines] : k \in 1 .. MaxTopLines }

InitParse ==
    /\ \E lines \in ParserSources : ps = Mini32Parser(lines)
    /\ cpu = Idle /\ phase = Idle /\ alu = Idle /\ asm = Idle /\ ld = Idle
    /\ pp = Idle /\ cc = Idle /\ lcd = Idle

(* parse(): the next top-level line is a `var` *)
ParseVar ==
    /\ ps.error = "none" /\ ps.pos <= Len(ps.lines)
    /\ ps.lines[ps.pos].kind = "var"
    /\ ps' = parse_var(ps, ps.lines[ps.pos])
    /\ UNCHANGED <<cpu, phase, alu, asm, ld, pp, cc, lcd>>

(* parse(): the next top-level line is a `func` *)
ParseFunction ==
    /\ ps.error = "none" /\ ps.pos <= Len(ps.lines)
    /\ ps.lines[ps.pos].kind = "func"
    /\ ps' = parse_function(ps, ps.lines[ps.pos])
    /\ UNCHANGED <<cpu, phase, alu, asm, ld, pp, cc, lcd>>

NextParse == ParseVar \/ ParseFunction

SpecParse == InitParse /\ [][NextParse]_vars

----------------------------------------------------------------------------
(* Claims about function scopes *)

(* C38: function scopes do not leak: when a function has been parsed,      *)
(* whatever its parameters and the locals of its body, every name resolves *)
(* exactly as it did before the function                                   *)
C38_FunctionScopesDoNotLeak ==
    [][(ps.pos <= Len(ps.lines) /\ ps.lines[ps.pos].kind = "func")
         => ps'.symbols = ps.symbols]_vars

====
